---- MODULE Spec2Model ----
(***************************************************************************)
(* A model of the EEG-Viewer qEEG analysis: the analysis pipeline          *)
(* (QEEGAnalyzer.run_full_analysis), the background worker that runs it    *)
(* (AnalysisWorker.run), the qEEG tab that starts runs and consumes their  *)
(* signals (QEEGTab, MainWindow._open_file), and the epoch-based artifact  *)
(* rejection (SignalProcessor.reject_artifacts).                           *)
(***************************************************************************)
EXTENDS Integers, Sequences, FiniteSets, TLC

VARIABLES
    loader,     \* the one EDFLoader of MainWindow: loaded recording and its EEG channel list
    runs,       \* every analyzer constructed so far, with its worker and thread
    tab,        \* the fields and widget states of QEEGTab
    uiPc,       \* position of the UI thread inside MainWindow._open_file
    handed,     \* the hand-overs of an analyzer to consumers made by the last handler that made any
    aborted,    \* the process was aborted by the Qt runtime
    proc,       \* a SignalProcessor and the reject_artifacts call made on it
    score,      \* a NormativeDB and the compute_zscores call made on it
    an,         \* the analyzers of the data-level pipeline, with their processors
    asym,       \* an analyzer's band powers, its asymmetry lists and the exported rows
    qual,       \* a SignalProcessor's quality map and the detection / filtering calls on it
    spect,      \* a PSD and the powers and peak frequencies computed from it
    ipad,       \* the call of the iPad reject_artifacts and of the desktop one on the same input
    play        \* a PlaybackWorker

vars == <<loader, runs, tab, uiPc, handed, aborted, proc, score, an, asym, qual, spect, ipad, play>>

\* The variables of the tab, the pipeline, the processors and the analyzers.
earlier == <<loader, runs, tab, uiPc, handed, aborted, proc, score, an>>

(***************************************************************************)
(* Bounds of the model.                                                    *)
(***************************************************************************)
MaxChannels == 16      \* EEG channel counts 0..MaxChannels in the pipeline runs
MaxRuns == 2           \* analyzers constructed in one session of the tab

(***************************************************************************)
(* The stages of run_full_analysis and the percentage reported on entry.   *)
(***************************************************************************)
Stages ==
    << "QualityDetection", "Filtering", "ArtifactRejection", "PSD", "BandPowers",
       "ZScores", "Coherence", "Asymmetry", "PeakFrequencies", "Complete" >>

StagePct == << 2, 4, 6, 10, 20, 35, 45, 85, 92, 100 >>

NStages == Len(Stages)

\* The result fields of the analyzer that each stage populates.
StageResults ==
    << {"channel_quality"}, {"_filtered_data"}, {"_clean_data", "artifact_stats"},
       {"freqs", "psd"}, {"band_powers", "relative_powers"}, {"zscores"},
       {"coherence"}, {"asymmetry"}, {"peak_freqs"}, {} >>

\* The EEG channel list of a recording with n EEG channels (channel identifiers).
ChannelList(n) == [i \in 1..n |-> i]

\* The recordings the user can open in the session: EEG channel count of each.
Recordings == << 2, 3 >>

IsPrefix(s, t) == Len(s) <= Len(t) /\ \A i \in 1..Len(s) : s[i] = t[i]

Range(s) == {s[i] : i \in 1..Len(s)}

(***************************************************************************)
(* QEEGAnalyzer.__init__ together with the worker and thread created for   *)
(* it by QEEGTab._run_analysis.                                            *)
(***************************************************************************)
NewRun(ld, timeRange, method) ==
    [ eeg_channels |-> ld.channels,   \* loader.get_eeg_channels(), captured once
      time_range   |-> timeRange,
      method       |-> method,        \* NormativeDB._method
      results      |-> {},            \* result fields populated so far
      pc           |-> 1,             \* next stage to enter; NStages+1: returned; NStages+2: terminated
      entered      |-> << >>,         \* history: stages entered, in order
      returned     |-> 0,             \* stages that have returned
      raisedAt     |-> 0,             \* stage that raised, 0 if none
      fetched      |-> << >>,         \* history: what each _get_eeg_data call observed
      sent         |-> << >>,         \* signals emitted by the worker, in order
      delivered    |-> 0,             \* how many of them the UI thread has handled
      thread       |-> "running" ]    \* the QThread's event loop

\* A signal of the worker on its way to the UI thread.
Progress(pct) == [sig |-> "progress", pct |-> pct]
Terminal(sig) == [sig |-> sig, pct |-> 0]

\* The notifications of the coherence pair loop over total pairs, the loop raising
\* at pair failAt (0: never): one after every 20th pair done.
CoherencePctsWide(total, failAt) ==
    LET last == IF failAt = 0 THEN total ELSE failAt - 1
    IN  [i \in 1..(last \div 20) |-> Progress(45 + ((45 * (20 * i)) \div total))]
CoherencePcts(total, failAt) ==
    LET last == IF failAt = 0 THEN total ELSE failAt - 1
    IN  [i \in 1..(last \div 20) |-> Progress(45 + ((40 * (20 * i)) \div total))]

TotalPairs(n) == (n * (n - 1)) \div 2

\* _get_eeg_data with picks = the analyzer's eeg_channels fails when the loader's
\* recording lacks one of them.
FetchFails(a, ld) == ~(Range(a.eeg_channels) \subseteq Range(ld.channels))

\* Stages that call _get_eeg_data.
Fetches(k) == k \in {1, 2}

Terminated == NStages + 2

\* run_full_analysis goes from each stage to the one written after it.
NextStageSkipping(k) == IF k = 3 THEN k + 2 ELSE k + 1
NextStage(k) == k + 1

\* A stage has raised: AnalysisWorker.run's except clause emits error and run returns.
RaisedWithFinally(a, k) ==
    [a EXCEPT !.sent = @ \o << Terminal("error"), Terminal("finished") >>,
              !.raisedAt = k,
              !.pc = Terminated]
Raised(a, k) ==
    [a EXCEPT !.sent = Append(@, Terminal("error")),
              !.raisedAt = k,
              !.pc = Terminated]

\* A stage has returned: its results are in the analyzer.
Returned(a, k) ==
    [a EXCEPT !.results = @ \cup StageResults[k],
              !.returned = k,
              !.pc = NextStage(k)]

(***************************************************************************)
(* One stage of run_full_analysis inside AnalysisWorker.run: the progress  *)
(* notification, then the stage; an exception goes to the except clause.   *)
(* lib: a library call of the stage raises (in the Coherence stage: after  *)
(* the pair loop); failAt: the pair at which the coherence loop raises, 0  *)
(* if it does not.                                                         *)
(***************************************************************************)
StageStep(a, ld, lib, failAt) ==
    LET k       == a.pc
        n       == Len(a.eeg_channels)
        fetch   == IF Fetches(k) THEN << [rec |-> ld.rec, channels |-> ld.channels] >> ELSE << >>
        raises  == \/ lib /\ k < NStages
                   \/ Fetches(k) /\ FetchFails(a, ld)
                   \/ k = 7 /\ failAt > 0
                   \/ k = 7 /\ n < 2            \* f is unbound after an empty pair loop
        inner   == IF k = 7 THEN CoherencePcts(TotalPairs(n), failAt) ELSE << >>
        entered == [a EXCEPT !.entered = Append(@, Stages[k]),
                             !.fetched = @ \o fetch,
                             !.sent = @ \o << Progress(StagePct[k]) >> \o inner]
    IN  IF raises THEN Raised(entered, k) ELSE Returned(entered, k)

WorkerStage(r) ==
    /\ ~aborted
    /\ r \in 1..Len(runs)
    /\ runs[r].pc \in 1..NStages
    /\ \E lib \in BOOLEAN, failAt \in 0..TotalPairs(Len(runs[r].eeg_channels)) :
          /\ (failAt > 0 => runs[r].pc = 7 /\ ~lib)
          /\ runs' = [runs EXCEPT ![r] = StageStep(runs[r], loader, lib, failAt)]
    /\ UNCHANGED <<loader, tab, uiPc, handed, aborted, proc, score, an, asym, qual, spect, ipad, play>>

\* AnalysisWorker.run after run_full_analysis has returned: finished.emit().
WorkerFinished(r) ==
    /\ ~aborted
    /\ r \in 1..Len(runs)
    /\ runs[r].pc = NStages + 1
    /\ runs' = [runs EXCEPT ![r].sent = Append(@, Terminal("finished")), ![r].pc = Terminated]
    /\ UNCHANGED <<loader, tab, uiPc, handed, aborted, proc, score, an, asym, qual, spect, ipad, play>>

(***************************************************************************)
(* SignalProcessor.reject_artifacts.  Samples are whole microvolts (the    *)
(* code holds volts and multiplies peak-to-peak values by 1e6); data is a  *)
(* sequence of channels, each a sequence of samples; durations are whole   *)
(* seconds.  An argument of 0 stands for an argument left out (None): the  *)
(* code's "x or DEFAULT" treats both alike.                                *)
(***************************************************************************)
EPOCH_DURATION_SEC == 2
ARTIFACT_THRESHOLD_UV == 100
MIN_CLEAN_EPOCHS == 30
Infinity == 1000000000      \* float('inf'): above every threshold and amplitude

LadderSwapped == << 150, 300, 200, 500 >>
Ladder == << 150, 200, 300, 500 >>

\* SignalProcessor.__init__, no call made yet.
NewProcessor ==
    [ sfreq |-> 1,
      n_clean_epochs |-> 0,
      n_total_epochs |-> 0,
      rejection_threshold |-> ARTIFACT_THRESHOLD_UV,
      channel_quality |-> << >>,  \* channel name -> "good" / "poor"
      bad_channels |-> << >>,     \* row indices flagged
      pc |-> "idle",              \* idle, relax (in the ladder loop), finish, returned
      data |-> << >>,             \* the arguments of the call
      threshold_uv |-> 0,
      epoch_sec |-> 0,
      threshold |-> 0,            \* the locals of the call
      epoch_samples |-> 0,
      n_epochs |-> 0,
      clean_epochs |-> << >>,
      level |-> 0,                \* ladder levels tried so far
      assigned |-> << >>,         \* history: values assigned to rejection_threshold by the call
      result |-> << >> ]          \* the returned matrix

SetMax(S) == CHOOSE x \in S : \A y \in S : y <= x
SetMin(S) == CHOOSE x \in S : \A y \in S : x <= y

\* data.shape[1]
NSamples(data) == IF Len(data) = 0 THEN 0 ELSE Len(data[1])

\* data[:, start:end] of epoch e (counted from 1)
Epoch(data, e, epoch_samples) ==
    [c \in 1..Len(data) |-> SubSeq(data[c], (e - 1) * epoch_samples + 1, e * epoch_samples)]

\* np.max(epoch, axis=1) - np.min(epoch, axis=1), in microvolts
PtpUv(epoch) == [c \in 1..Len(epoch) |-> SetMax(Range(epoch[c])) - SetMin(Range(epoch[c]))]

\* np.all(ptp_uv <= threshold)
EpochCleanFirstChannel(epoch, threshold) == Len(epoch) > 0 => PtpUv(epoch)[1] <= threshold
EpochClean(epoch, threshold) == \A c \in 1..Len(epoch) : PtpUv(epoch)[c] <= threshold

\* The loop over range(n_epochs) that appends the epochs passing the threshold.
PassEpochs(data, n_epochs, epoch_samples, threshold) ==
    LET kept == SelectSeq([e \in 1..n_epochs |-> e],
                          LAMBDA e : EpochClean(Epoch(data, e, epoch_samples), threshold))
    IN  [i \in 1..Len(kept) |-> Epoch(data, kept[i], epoch_samples)]

\* np.concatenate(clean_epochs, axis=1) of a non-empty list
Concatenate(epochs) ==
    LET w == Len(epochs[1][1])
    IN  [c \in 1..Len(epochs[1]) |->
            [j \in 1..(Len(epochs) * w) |-> epochs[((j - 1) \div w) + 1][c][((j - 1) % w) + 1]]]

\* The early return of reject_artifacts when the data holds no whole epoch.
RejectNoEpochsKeepingCount(q) ==
    [q EXCEPT !.n_total_epochs = 0,
              !.clean_epochs = << >>, !.result = q.data, !.pc = "returned"]
RejectNoEpochs(q) ==
    [q EXCEPT !.n_clean_epochs = 0, !.n_total_epochs = 0,
              !.clean_epochs = << >>, !.result = q.data, !.pc = "returned"]

\* reject_artifacts up to the first assignment of rejection_threshold: the
\* defaults, the epoch count, the early return and the first pass.
RejectStart(p, data, threshold_uv, epoch_sec) ==
    LET threshold     == IF threshold_uv # 0 THEN threshold_uv ELSE ARTIFACT_THRESHOLD_UV
        epoch_dur     == IF epoch_sec # 0 THEN epoch_sec ELSE EPOCH_DURATION_SEC
        epoch_samples == epoch_dur * p.sfreq
        n_epochs      == NSamples(data) \div epoch_samples
        clean         == PassEpochs(data, n_epochs, epoch_samples, threshold)
        q == [p EXCEPT !.data = data, !.threshold_uv = threshold_uv, !.epoch_sec = epoch_sec,
                       !.threshold = threshold, !.epoch_samples = epoch_samples,
                       !.n_epochs = n_epochs, !.level = 0, !.assigned = << >>]
    IN  IF n_epochs = 0
        THEN RejectNoEpochs(q)
        ELSE [q EXCEPT !.clean_epochs = clean,
                       !.n_total_epochs = n_epochs,
                       !.rejection_threshold = threshold,
                       !.assigned = << threshold >>,
                       !.pc = IF Len(clean) < MIN_CLEAN_EPOCHS THEN "relax" ELSE "finish"]

\* One iteration of the loop over the relaxed thresholds.
RejectRelax(p) ==
    LET relaxed_thresh == Ladder[p.level + 1]
        clean == PassEpochs(p.data, p.n_epochs, p.epoch_samples, relaxed_thresh)
    IN  [p EXCEPT !.clean_epochs = clean,
                  !.level = @ + 1,
                  !.rejection_threshold = relaxed_thresh,
                  !.assigned = Append(@, relaxed_thresh),
                  !.pc = IF Len(clean) >= MIN_CLEAN_EPOCHS \/ p.level + 1 = Len(Ladder)
                         THEN "finish" ELSE "relax"]

\* Too few epochs even after the ladder: no rejection.
FallbackRejecting(p) ==
    [p EXCEPT !.n_clean_epochs = Len(p.clean_epochs),
              !.rejection_threshold = Infinity,
              !.assigned = Append(@, Infinity),
              !.result = IF p.clean_epochs = << >> THEN [c \in 1..Len(p.data) |-> << >>]
                         ELSE Concatenate(p.clean_epochs),
              !.pc = "returned"]
Fallback(p) ==
    [p EXCEPT !.n_clean_epochs = p.n_epochs,
              !.rejection_threshold = Infinity,
              !.assigned = Append(@, Infinity),
              !.result = p.data,
              !.pc = "returned"]

\* The end of reject_artifacts: the fallback, or the clean epochs concatenated.
RejectFinish(p) ==
    IF Len(p.clean_epochs) < MIN_CLEAN_EPOCHS
    THEN Fallback(p)
    ELSE [p EXCEPT !.n_clean_epochs = Len(p.clean_epochs),
                   !.result = Concatenate(p.clean_epochs),
                   !.pc = "returned"]

(***************************************************************************)
(* The recordings reject_artifacts is called on: nE blocks of two samples  *)
(* per channel, block e holding e and e + its amplitude, and tail further  *)
(* samples.  Every block has amplitude lo on every channel, but for the    *)
(* blocks in dirty on channel ch, which have amplitude hi.                 *)
(***************************************************************************)
MaxEpochs == 31        \* blocks of the longest recording
NumChannels == 2       \* channels of the recordings

EpochCounts == {0, 1} \cup ((MIN_CLEAN_EPOCHS - 1)..MaxEpochs)
Amplitudes == {100, 101, 150, 200, 300, 500, 501}
ThresholdArgs == {0, 150, 200, 600}
EpochSecArgs == {0, 4}
DirtySets(nE) == {{}, {1}, {nE}, {2, nE}}

MakeData(nE, tail, lo, hi, dirty, ch) ==
    [c \in 1..NumChannels |->
        [i \in 1..(2 * nE + tail) |->
            LET e == (i + 1) \div 2
            IN  IF i > 2 * nE THEN 0
                ELSE IF i % 2 = 1 THEN e
                ELSE e + (IF e \in dirty /\ c = ch THEN hi ELSE lo)]]

\* A call of reject_artifacts on a fresh processor.
RejectCall ==
    /\ proc.pc = "idle"
    /\ \E nE \in EpochCounts, tail \in 0..1, lo \in Amplitudes, hi \in Amplitudes,
          ch \in 1..NumChannels, threshold_uv \in ThresholdArgs, epoch_sec \in EpochSecArgs :
          \E dirty \in DirtySets(nE) :
             /\ lo <= hi
             /\ proc' = RejectStart(proc, MakeData(nE, tail, lo, hi, dirty, ch),
                                    threshold_uv, epoch_sec)
    /\ UNCHANGED <<loader, runs, tab, uiPc, handed, aborted, score, an, asym, qual, spect, ipad, play>>

RejectRelaxStep ==
    /\ proc.pc = "relax"
    /\ proc' = RejectRelax(proc)
    /\ UNCHANGED <<loader, runs, tab, uiPc, handed, aborted, score, an, asym, qual, spect, ipad, play>>

RejectFinishStep ==
    /\ proc.pc = "finish"
    /\ proc' = RejectFinish(proc)
    /\ UNCHANGED <<loader, runs, tab, uiPc, handed, aborted, score, an, asym, qual, spect, ipad, play>>

(***************************************************************************)
(* The iPad module's reject_artifacts(data, sfreq, threshold_uv,           *)
(* epoch_sec): a function returning the clean data and a dict of stats.    *)
(* Its two loops over the epochs read as those of the processor.           *)
(***************************************************************************)
\* for relaxed in [150, 200, 300, 500]
IpadLadder == << 150, 200, 300, 500 >>

\* The loop over the relaxed thresholds from position level on: the clean
\* epochs and the threshold it leaves.
RECURSIVE IpadRelax(_, _, _, _)
IpadRelax(data, n_epochs, epoch_samples, level) ==
    LET relaxed == IpadLadder[level]
        clean   == PassEpochs(data, n_epochs, epoch_samples, relaxed)
    IN  IF Len(clean) >= MIN_CLEAN_EPOCHS \/ level = Len(IpadLadder)
        THEN [clean_epochs |-> clean, threshold |-> relaxed]
        ELSE IpadRelax(data, n_epochs, epoch_samples, level + 1)

\* Too few epochs even after the ladder.
IpadFallbackFinite(data, n_epochs) ==
    [ clean_data |-> data,
      stats |-> [total |-> n_epochs, clean |-> n_epochs, rejected |-> 0,
                 threshold |-> IpadLadder[Len(IpadLadder)]] ]
IpadFallback(data, n_epochs) ==
    [ clean_data |-> data,
      stats |-> [total |-> n_epochs, clean |-> n_epochs, rejected |-> 0,
                 threshold |-> Infinity] ]

ipad_reject_artifacts(data, sfreq, threshold_uv, epoch_sec) ==
    LET threshold     == IF threshold_uv # 0 THEN threshold_uv ELSE ARTIFACT_THRESHOLD_UV
        epoch_dur     == IF epoch_sec # 0 THEN epoch_sec ELSE EPOCH_DURATION_SEC
        epoch_samples == epoch_dur * sfreq
        n_epochs      == NSamples(data) \div epoch_samples
        first         == PassEpochs(data, n_epochs, epoch_samples, threshold)
        after         == IF Len(first) < MIN_CLEAN_EPOCHS
                         THEN IpadRelax(data, n_epochs, epoch_samples, 1)
                         ELSE [clean_epochs |-> first, threshold |-> threshold]
    IN  IF n_epochs = 0
        THEN [ clean_data |-> data,
               stats |-> [total |-> 0, clean |-> 0, rejected |-> 0, threshold |-> threshold] ]
        ELSE IF Len(after.clean_epochs) < MIN_CLEAN_EPOCHS
        THEN IpadFallback(data, n_epochs)
        ELSE [ clean_data |-> Concatenate(after.clean_epochs),
               stats |-> [total |-> n_epochs, clean |-> Len(after.clean_epochs),
                          rejected |-> n_epochs - Len(after.clean_epochs),
                          threshold |-> after.threshold] ]

NewIpad == [pc |-> "idle", clean_data |-> << >>, stats |-> << >>]

\* The iPad function called with the arguments the processor was called with.
IpadCall ==
    /\ proc.pc = "returned"
    /\ ipad.pc = "idle"
    /\ LET res == ipad_reject_artifacts(proc.data, proc.sfreq, proc.threshold_uv, proc.epoch_sec)
       IN  ipad' = [pc |-> "returned", clean_data |-> res.clean_data, stats |-> res.stats]
    /\ UNCHANGED <<earlier, asym, qual, spect, play>>

\* The recordings of the calls on a processor that is used again and again.
LaterEpochCounts == {0, 1, MIN_CLEAN_EPOCHS, MaxEpochs}
LaterAmplitudes == {100, 501}

\* A call of reject_artifacts on a processor, fresh or left by an earlier call.
RejectAgain ==
    /\ proc.pc \in {"idle", "returned"}
    /\ \E nE \in LaterEpochCounts, tail \in 0..1, lo \in LaterAmplitudes,
          threshold_uv \in {0, 200} :
          \E dirty \in DirtySets(nE) :
             proc' = RejectStart(proc, MakeData(nE, tail, lo, 501, dirty, 1), threshold_uv, 0)
    /\ UNCHANGED <<loader, runs, tab, uiPc, handed, aborted, score, an, asym, qual, spect, ipad, play>>

\* The artifact_stats QEEGAnalyzer._reject_artifacts builds from the processor
\* after the call; pct_rejected is the exact quotient num / den.
ArtifactStats(p) ==
    [ total_epochs    |-> p.n_total_epochs,
      clean_epochs    |-> p.n_clean_epochs,
      rejected_epochs |-> p.n_total_epochs - p.n_clean_epochs,
      threshold_uv    |-> p.rejection_threshold,
      pct_rejected    |-> [num |-> (p.n_total_epochs - p.n_clean_epochs) * 100,
                           den |-> SetMax({p.n_total_epochs, 1})] ]

(***************************************************************************)
(* NormativeDB.  Relative powers are whole hundredths.  A float is held as *)
(* its sign and its square, sgn * sqrt(num / den), or as NaN: the standard *)
(* deviation of the within-subject score is a square root.                 *)
(***************************************************************************)
NORMATIVE_RELATIVE_POWER ==
    [ Delta |-> [mean |-> 28, std |-> 9],
      Theta |-> [mean |-> 18, std |-> 7],
      Alpha |-> [mean |-> 32, std |-> 11],
      Beta  |-> [mean |-> 14, std |-> 6] ]

NaN == [nan |-> TRUE, sgn |-> 0, num |-> 0, den |-> 0]
Zero == [nan |-> FALSE, sgn |-> 0, num |-> 0, den |-> 1]

Sign(x) == IF x > 0 THEN 1 ELSE IF x < 0 THEN -1 ELSE 0

\* np.zeros_like(channel_values)
ZerosLike(channel_values) == [i \in 1..Len(channel_values) |-> Zero]

RECURSIVE Sum(_)
Sum(v) == IF v = << >> THEN 0 ELSE Head(v) + Sum(Tail(v))

\* np.std(channel_values, ddof=1): the square root of the sum of the squared
\* deviations from the mean over n - 1, here its square as a quotient; 0 / 0
\* (one value) and the mean of nothing are NaN.
StdDdof1(channel_values) ==
    LET n == Len(channel_values)
        S == n * Sum([i \in 1..n |-> channel_values[i] * channel_values[i]])
             - Sum(channel_values) * Sum(channel_values)     \* n * sum of squared deviations
    IN  IF n - 1 <= 0 THEN NaN
        ELSE [nan |-> FALSE, sgn |-> Sign(S), num |-> S, den |-> n * (n - 1)]

\* std < 1e-10: false for NaN; values are whole hundredths, so a standard
\* deviation below 1e-10 is zero.
BelowEps(std) == ~std.nan /\ std.num = 0

\* (channel_values - mean) / std for one channel: (n x - sum) / n over std.
CentredOverStd(channel_values, i, std) ==
    LET n == Len(channel_values)
        d == n * channel_values[i] - Sum(channel_values)
    IN  IF std.nan THEN NaN
        ELSE [nan |-> FALSE, sgn |-> Sign(d), num |-> d * d * std.den, den |-> n * n * std.num]

compute_zscore_within_subject(channel_values) ==
    LET std == StdDdof1(channel_values)
    IN  IF BelowEps(std) THEN ZerosLike(channel_values)
        ELSE [i \in 1..Len(channel_values) |-> CentredOverStd(channel_values, i, std)]

compute_zscore_normative(channel_values, band_name) ==
    IF band_name \notin DOMAIN NORMATIVE_RELATIVE_POWER
    THEN ZerosLike(channel_values)
    ELSE LET norm == NORMATIVE_RELATIVE_POWER[band_name]
         IN  [i \in 1..Len(channel_values) |->
                LET d == channel_values[i] - norm.mean
                IN  [nan |-> FALSE, sgn |-> Sign(d), num |-> d * d, den |-> norm.std * norm.std]]

\* The outcome of a call: an exception, or the value returned.
Raise(exc) == [raised |-> TRUE, exc |-> exc, value |-> << >>]
Return(value) == [raised |-> FALSE, exc |-> "", value |-> value]

\* NormativeDB.compute_zscores; band_name "None" is the argument left out.
compute_zscores(method, channel_values, band_name) ==
    IF method = "within"
    THEN Return(compute_zscore_within_subject(channel_values))
    ELSE IF band_name = "None"
         THEN Raise("ValueError")
         ELSE Return(compute_zscore_normative(channel_values, band_name))

\* NormativeDB.__init__, no call made yet.
NewNormativeDB ==
    [ method |-> "within", pc |-> "idle", channel_values |-> << >>, band_name |-> "None",
      out |-> Return(<< >>) ]

MaxVector == 3         \* channels of the vectors scored

ScoreValues == {0, 14, 28, 37}
ScoreBands == {"Delta", "Theta", "Alpha", "Beta", "Gamma", "None"}
ScoreVectors == UNION {[1..n -> ScoreValues] : n \in 0..MaxVector}

\* NormativeDB.set_method
SetMethod ==
    /\ \E m \in {"within", "normative"} : score' = [score EXCEPT !.method = m]
    /\ UNCHANGED <<loader, runs, tab, uiPc, handed, aborted, proc, an, asym, qual, spect, ipad, play>>

\* A call of compute_zscores on the NormativeDB.
ComputeZScores ==
    /\ \E v \in ScoreVectors, b \in ScoreBands :
          score' = [score EXCEPT !.pc = "done", !.channel_values = v, !.band_name = b,
                                 !.out = compute_zscores(score.method, v, b)]
    /\ UNCHANGED <<loader, runs, tab, uiPc, handed, aborted, proc, an, asym, qual, spect, ipad, play>>

(***************************************************************************)
(* The pipeline at the level of its data.  Channel names are positions in  *)
(* the 10-20 list (Fp1 = 1, Fp2 = 2, ...); a name CHi made up for row i is *)
(* 100 + i.  The numerical routines of scipy are functions of their        *)
(* arguments whose values are not interpreted: a result is the term naming *)
(* the routine and its arguments, and filtered samples are an injective    *)
(* code of the sample and the filter applied.                              *)
(***************************************************************************)
FREQ_BANDS == << "Delta", "Theta", "Alpha", "Beta" >>

\* (Fp1, Fp2), (F7, F8), (F3, F4), (T7, T8), (C3, C4), (P7, P8), (P3, P4), (O1, O2)
ASYMMETRY_PAIRS ==
    << <<1, 2>>, <<3, 7>>, <<4, 6>>, <<8, 12>>, <<9, 11>>, <<13, 17>>, <<14, 16>>, <<18, 19>> >>

None == [op |-> "None", band |-> "", x |-> << >>, y |-> << >>]
Term(op, band, x, y) == [op |-> op, band |-> band, x |-> x, y |-> y]

\* The recordings of the data-level runs: EEG channels, other channels (ECG),
\* whole 2-sample blocks, further samples, and the amplitude of every block.
DataRecordings ==
    << [n_eeg |-> 0, n_other |-> 1, blocks |-> 31, tail |-> 0, amp |-> 100],
       [n_eeg |-> 1, n_other |-> 0, blocks |-> 31, tail |-> 1, amp |-> 100],
       [n_eeg |-> 2, n_other |-> 1, blocks |-> 0,  tail |-> 1, amp |-> 100],
       [n_eeg |-> 2, n_other |-> 0, blocks |-> 31, tail |-> 0, amp |-> 40],
       [n_eeg |-> 3, n_other |-> 1, blocks |-> 30, tail |-> 1, amp |-> 300] >>

\* raw.get_data of all rows of recording rec: EEG rows first, then the others.
RawData(rec) ==
    LET r == DataRecordings[rec]
    IN  [c \in 1..(r.n_eeg + r.n_other) |->
            [i \in 1..(2 * r.blocks + r.tail) |->
                IF i > 2 * r.blocks THEN c
                ELSE IF i % 2 = 1 THEN c ELSE c + r.amp]]

\* The time ranges of an analysis: 0 is None (falsy), otherwise (0, end_sec).
TimeRanges == {0, 1}

\* raw.get_data(picks = channels if channels else None) on all rows of a recording.
PicksAlwaysNone(channels, all) == all
Picks(channels, all) ==
    IF Len(channels) = 0 THEN all
    ELSE [i \in 1..Len(channels) |-> all[channels[i]]]

\* QEEGAnalyzer._get_eeg_data on the loader's recording: picks is None, all rows,
\* when the analyzer has no EEG channel; the range ends at end_sec * sfreq.
GetEegData(a, rec) ==
    LET all  == RawData(rec)
        rows == Picks(a.eeg_channels, all)
        stop == IF a.time_range # 0
                THEN SetMin({a.time_range * a.processor.sfreq, NSamples(all)})
                ELSE NSamples(all)
    IN  [c \in 1..Len(rows) |-> SubSeq(rows[c], 1, stop)]

\* The result fields of an analyzer and the state its processor keeps.
Results(a) ==
    [ freqs |-> a.freqs, psd |-> a.psd, band_powers |-> a.band_powers,
      relative_powers |-> a.relative_powers, zscores |-> a.zscores,
      coherence |-> a.coherence, asymmetry |-> a.asymmetry, peak_freqs |-> a.peak_freqs,
      artifact_stats |-> a.artifact_stats, channel_quality |-> a.channel_quality,
      clean_data |-> a.clean_data,
      n_clean_epochs |-> a.processor.n_clean_epochs,
      n_total_epochs |-> a.processor.n_total_epochs,
      rejection_threshold |-> a.processor.rejection_threshold,
      processor_quality |-> a.processor.channel_quality,
      bad_channels |-> a.processor.bad_channels ]

\* QEEGAnalyzer.__init__ on a processor and a NormativeDB with the given method.
NewAnalyzer(rec, time_range, method, processor) ==
    [ rec |-> rec, eeg_channels |-> ChannelList(DataRecordings[rec].n_eeg),
      n_eeg |-> DataRecordings[rec].n_eeg,
      processor |-> processor, method |-> method, time_range |-> time_range,
      freqs |-> None, psd |-> << >>, band_powers |-> << >>, relative_powers |-> << >>,
      zscores |-> << >>, coherence |-> << >>, asymmetry |-> << >>, peak_freqs |-> << >>,
      artifact_stats |-> << >>, channel_quality |-> << >>, clean_data |-> << >>,
      has_filtered |-> FALSE, filtered_data |-> << >>,
      pc |-> 1,                    \* next stage of run_full_analysis; NStages + 1: returned
      status |-> "running",        \* running, complete, error
      progress |-> << >>,          \* history: percentages reported, all runs
      executed |-> [k \in 1..NStages |-> 0],   \* history: times each stage was entered
      passes |-> 0,                \* history: calls of run_full_analysis that returned
      first |-> << >> ]            \* history: method and results when the first call returned

\* IMPEDANCE_RMS_PERCENTILE
RmsPercentile == 75

\* The sum of the squares of row[lo..hi]: n * rms^2.
RECURSIVE Energy(_, _, _)
Energy(row, lo, hi) ==
    IF lo > hi THEN 0
    ELSE IF lo = hi THEN row[lo] * row[lo]
    ELSE LET mid == (lo + hi) \div 2
         IN  Energy(row, lo, mid) + Energy(row, mid + 1, hi)

\* rms_values[i] > np.percentile(rms_values, 75): the percentile interpolates
\* between the sorted values at floor and ceiling of 0.75 (n - 1), so a value
\* exceeds it exactly when it exceeds the sorted value at the floor.
HighRmsAtLeast(data, i) ==
    LET n  == Len(data)
        e  == [c \in 1..n |-> Energy(data[c], 1, Len(data[c]))]
        lo == (RmsPercentile * (n - 1)) \div 100
        atFloor == CHOOSE c \in 1..n :
                      /\ Cardinality({d \in 1..n : e[d] < e[c]}) <= lo
                      /\ Cardinality({d \in 1..n : e[d] <= e[c]}) > lo
    IN  e[i] >= e[atFloor]
HighRms(data, i) ==
    LET n  == Len(data)
        e  == [c \in 1..n |-> Energy(data[c], 1, Len(data[c]))]
        lo == (RmsPercentile * (n - 1)) \div 100
        \* e[c] is the sorted value at index lo (from 0): at most lo values lie
        \* below it and more than lo values do not lie above it
        atFloor == CHOOSE c \in 1..n :
                      /\ Cardinality({d \in 1..n : e[d] < e[c]}) <= lo
                      /\ Cardinality({d \in 1..n : e[d] <= e[c]}) > lo
    IN  e[i] > e[atFloor]

\* IMPEDANCE_DETECTION_ENABLED, IMPEDANCE_NOISE_FLOOR_THRESHOLD (dB) and
\* IMPEDANCE_SLOPE_THRESHOLD (in tenths)
IMPEDANCE_DETECTION_ENABLED == TRUE
IMPEDANCE_NOISE_FLOOR_THRESHOLD == -110
IMPEDANCE_SLOPE_THRESHOLD == -18

\* The two figures read off the Welch estimate of a row, not interpreted: the
\* low-frequency power in dB and the slope of the log-log fit in tenths are
\* fixed functions of the row's last sample, taking values at, above and below
\* their thresholds.
LowFreqPowerDb(row) == -100 - 10 * (row[Len(row)] % 3)
Slope(row) == -17 - ((row[Len(row)] \div 3) % 3)

\* Checks 1 and 2 of the classification loop.
SpectralChecks(row) ==
    /\ Len(row) > 0
    /\ \/ LowFreqPowerDb(row) > IMPEDANCE_NOISE_FLOOR_THRESHOLD
       \/ Slope(row) < IMPEDANCE_SLOPE_THRESHOLD

\* SignalProcessor.detect_impedance_issues(data, channel_names): the map is
\* assigned in the order of the list, so a name holds the tag of its last index.
DetectKeepingFlags(p, data, channel_names) ==
    LET assess == IMPEDANCE_DETECTION_ENABLED /\ Len(data) # 0
        is_bad(i) == assess /\ (SpectralChecks(data[i]) \/ HighRms(data, i))
        bad == SelectSeq([i \in 1..Len(channel_names) |-> i], is_bad)
    IN  [p EXCEPT !.channel_quality =
                      [ch \in Range(channel_names) |->
                          IF is_bad(SetMax({i \in 1..Len(channel_names) : channel_names[i] = ch}))
                          THEN "poor" ELSE "good"],
                  !.bad_channels = @ \o [k \in 1..Len(bad) |-> bad[k] - 1]]
detect_impedance_issues(p, data, channel_names) ==
    LET assess == IMPEDANCE_DETECTION_ENABLED /\ Len(data) # 0
        is_bad(i) == assess /\ (SpectralChecks(data[i]) \/ HighRms(data, i))
        bad == SelectSeq([i \in 1..Len(channel_names) |-> i], is_bad)
    IN  [p EXCEPT !.channel_quality =
                      [ch \in Range(channel_names) |->
                          IF is_bad(SetMax({i \in 1..Len(channel_names) : channel_names[i] = ch}))
                          THEN "poor" ELSE "good"],
                  !.bad_channels = [k \in 1..Len(bad) |-> bad[k] - 1]]

\* butter + filtfilt on one row: the samples coded with the filter set applied.
FiltFilt(row, quality) == [i \in 1..Len(row) |-> 2 * row[i] + (IF quality = "poor" THEN 1 ELSE 0)]

\* SignalProcessor.apply_adaptive_filtering(data, channel_names): the processor
\* after the call (it assesses the channels itself when its map is empty) and
\* the filtered matrix.
apply_adaptive_filtering(p, data, channel_names) ==
    LET names == IF channel_names = << >>
                 THEN [i \in 1..Len(data) |-> 100 + (i - 1)]
                 ELSE channel_names
        q     == IF DOMAIN p.channel_quality = {}
                 THEN detect_impedance_issues(p, data, names)
                 ELSE p
        get(ch) == IF ch \in DOMAIN q.channel_quality THEN q.channel_quality[ch] ELSE "good"
    IN  [ processor |-> q,
          filtered  |-> [c \in 1..Len(data) |->
                            IF c <= Len(names) THEN FiltFilt(data[c], get(names[c]))
                            ELSE data[c]] ]

(***************************************************************************)
(* A processor whose detect_impedance_issues and apply_adaptive_filtering  *)
(* are called directly, in any order and on any data.                      *)
(***************************************************************************)
MaxQualChannels == 3

\* The rows of the matrices: two samples each, with quiet and loud rows whose
\* spectral figures lie at, above and below the thresholds.
QualRows == { <<3, 4>>, <<0, 10>>, <<6, 8>>, <<4, 3>> }
QualData == UNION { [1..n -> QualRows] : n \in 0..MaxQualChannels }

\* The channel lists passed with a matrix: one name per row, and for an empty
\* matrix any list.
QualNames(data) ==
    IF Len(data) = 0 THEN { [i \in 1..n |-> i] : n \in 0..MaxQualChannels }
    ELSE { [i \in 1..Len(data) |-> i] }

NewQuality ==
    [ channel_quality |-> << >>, bad_channels |-> << >>, pc |-> "idle",
      data |-> << >>, channel_names |-> << >>, filtered |-> << >> ]

\* processor.detect_impedance_issues(data, channel_names)
QualDetect ==
    /\ \E data \in QualData : \E channel_names \in QualNames(data) :
          qual' = [detect_impedance_issues(qual, data, channel_names) EXCEPT
                      !.pc = "detected", !.data = data,
                      !.channel_names = channel_names, !.filtered = << >>]
    /\ UNCHANGED <<earlier, asym, spect, ipad, play>>

\* processor.apply_adaptive_filtering(data, channel_names), channel_names None
\* or one name per row.
QualFilter ==
    /\ \E data \in QualData : \E channel_names \in {<< >>, [i \in 1..Len(data) |-> i]} :
          LET res == apply_adaptive_filtering(qual, data, channel_names)
          IN  qual' = [res.processor EXCEPT
                          !.pc = "filtered", !.data = data,
                          !.channel_names = channel_names, !.filtered = res.filtered]
    /\ UNCHANGED <<earlier, asym, spect, ipad, play>>

\* A whole call of reject_artifacts(data) with the default arguments.
RECURSIVE RejectRun(_)
RejectRun(p) ==
    IF p.pc = "relax" THEN RejectRun(RejectRelax(p))
    ELSE IF p.pc = "finish" THEN RejectFinish(p)
    ELSE p

reject_artifacts(p, data) == RejectRun(RejectStart(p, data, 0, 0))

One == Term("1.0", "", << >>, << >>)

Bands == Range(FREQ_BANDS)

\* d[key] = value for every key of keys, as the loop over the keys leaves dict d.
Assign(d, keys, value(_)) ==
    [k \in (DOMAIN d) \cup keys |-> IF k \in keys THEN value(k) ELSE d[k]]

\* NormativeDB.compute_zscores on the relative powers of one band, not interpreted.
ZScoresOf(method, rel_power, band_name) ==
    [i \in 1..Len(rel_power) |->
        IF method = "within"
        THEN Term("within", "", rel_power[i].x, << Len(rel_power) >>)
        ELSE Term("normative", band_name, rel_power[i].x, << >>)]

\* QEEGAnalyzer._compute_zscores
ComputeZScoresStage(a) ==
    [a EXCEPT !.zscores =
        Assign(@, Bands, LAMBDA b : ZScoresOf(a.method, a.relative_powers[b], b))]

\* The pairs of ASYMMETRY_PAIRS with both channels in the analyzer's list, in order.
PresentPairs(a) ==
    SelectSeq(ASYMMETRY_PAIRS,
              LAMBDA pr : pr[1] \in Range(a.eeg_channels) /\ pr[2] \in Range(a.eeg_channels))

\* eeg_channels.index(ch)
IndexOf(channels, ch) == SetMin({i \in 1..Len(channels) : channels[i] = ch})

\* The body of stage k of run_full_analysis on analyzer a (k < NStages, and for
\* the Coherence stage at least one pair of channels).
StageBody(a, k) ==
    LET data == GetEegData(a, a.rec)
    IN  CASE k = 1 ->
               LET q == detect_impedance_issues(a.processor, data, a.eeg_channels)
               IN  [a EXCEPT !.processor = q, !.channel_quality = q.channel_quality]
          [] k = 2 ->
               LET r == apply_adaptive_filtering(a.processor, data, a.eeg_channels)
               IN  [a EXCEPT !.processor = r.processor, !.filtered_data = r.filtered,
                             !.has_filtered = TRUE]
          [] k = 3 ->
               LET q == reject_artifacts(a.processor,
                                         IF a.has_filtered THEN a.filtered_data ELSE data)
               IN  [a EXCEPT !.processor = q, !.clean_data = q.result,
                             !.artifact_stats = ArtifactStats(q)]
          [] k = 4 ->
               [a EXCEPT !.freqs = Term("freqs", "", << NSamples(a.clean_data) >>, << >>),
                         !.psd = [c \in 1..Len(a.clean_data) |->
                                     Term("welch", "", a.clean_data[c], << >>)]]
          [] k = 5 ->
               [a EXCEPT !.band_powers =
                             Assign(@, Bands, LAMBDA b :
                                 [c \in 1..Len(a.psd) |-> Term("band_power", b, a.psd[c].x, << >>)]),
                         !.relative_powers =
                             Assign(@, Bands, LAMBDA b :
                                 [c \in 1..Len(a.psd) |-> Term("relative_power", b, a.psd[c].x, << >>)])]
          [] k = 6 -> ComputeZScoresStage(a)
          [] k = 7 ->
               [a EXCEPT !.coherence =
                   Assign(@, Bands, LAMBDA b :
                       [i \in 1..a.n_eeg |-> [j \in 1..a.n_eeg |->
                           IF i = j THEN One
                           ELSE Term("coherence", b, a.clean_data[SetMin({i, j})],
                                     a.clean_data[SetMax({i, j})])]])]
          [] k = 8 ->
               [a EXCEPT !.asymmetry =
                   Assign(@, Bands, LAMBDA b :
                       LET prs == PresentPairs(a)
                       IN  [n \in 1..Len(prs) |->
                              [pair  |-> prs[n],
                               value |-> Term("ln_ratio", b,
                                   a.band_powers[b][IndexOf(a.eeg_channels, prs[n][1])].x,
                                   a.band_powers[b][IndexOf(a.eeg_channels, prs[n][2])].x)]])]
          [] k = 9 ->
               [a EXCEPT !.peak_freqs =
                   Assign(@, Range(a.eeg_channels), LAMBDA ch :
                       Term("peaks", "", a.psd[IndexOf(a.eeg_channels, ch)].x, << >>))]

\* The Coherence stage reads f after the pair loop: unbound without a pair.
CoherenceUnbound(a) == a.n_eeg < 2

\* One stage of run_full_analysis on analyzer a: the progress notification and
\* the stage; the 100% notification ends the call.
DataStageStep(a) ==
    LET k == a.pc
        e == [a EXCEPT !.progress = Append(@, StagePct[k]), !.executed[k] = @ + 1]
    IN  IF k = NStages
        THEN [e EXCEPT !.pc = NStages + 1, !.status = "complete", !.passes = @ + 1,
                       !.first = IF a.passes = 0 THEN [method |-> a.method, results |-> Results(a)]
                                ELSE @]
        ELSE IF k = 7 /\ CoherenceUnbound(a)
        THEN [e EXCEPT !.pc = Terminated, !.status = "error"]
        ELSE [StageBody(e, k) EXCEPT !.pc = NextStage(k)]

MaxAnalyzers == 2      \* analyzers constructed on one loaded recording
MaxPasses == 2         \* calls of run_full_analysis on one analyzer

\* The SignalProcessor QEEGTab._run_analysis hands to a new analyzer.
SharedProcessor(list) == IF list = << >> THEN NewProcessor ELSE list[Len(list)].processor
FreshProcessor(list) == NewProcessor

\* QEEGTab._run_analysis: a new processor, NormativeDB and analyzer on the
\* loader's recording, for a time range and the method of the combo box.
Analyze ==
    /\ Len(an) < MaxAnalyzers
    /\ \E time_range \in TimeRanges, method \in {"within", "normative"} :
          an' = Append(an, NewAnalyzer(loader.rec, time_range, method, FreshProcessor(an)))
    /\ UNCHANGED <<loader, runs, tab, uiPc, handed, aborted, proc, score, asym, qual, spect, ipad, play>>

\* The worker of analyzer i runs the next stage.
DataStage(i) ==
    /\ i \in 1..Len(an)
    /\ an[i].status = "running"
    /\ an[i].pc \in 1..NStages
    /\ an' = [an EXCEPT ![i] = DataStageStep(an[i])]
    /\ UNCHANGED <<loader, runs, tab, uiPc, handed, aborted, proc, score, asym, qual, spect, ipad, play>>

\* run_full_analysis is called once more on an analyzer whose call returned.
RunAgain(i) ==
    /\ i \in 1..Len(an)
    /\ an[i].status = "complete"
    /\ an[i].passes < MaxPasses
    /\ an' = [an EXCEPT ![i].status = "running", ![i].pc = 1]
    /\ UNCHANGED <<loader, runs, tab, uiPc, handed, aborted, proc, score, asym, qual, spect, ipad, play>>

\* QEEGAnalyzer.recompute_zscores
RecomputeFromBandPowers(a) ==
    ComputeZScoresStage(StageBody([a EXCEPT !.executed[5] = @ + 1], 5))
recompute_zscores(a) == ComputeZScoresStage(a)

\* QEEGTab._on_zscore_method_changed on a completed analyzer: set_method with
\* the other method, then recompute_zscores.
MethodChanged(i) ==
    /\ i \in 1..Len(an)
    /\ an[i].status = "complete"
    /\ LET m == IF an[i].method = "within" THEN "normative" ELSE "within"
       IN  an' = [an EXCEPT ![i] = recompute_zscores([an[i] EXCEPT !.method = m])]
    /\ UNCHANGED <<loader, runs, tab, uiPc, handed, aborted, proc, score, asym, qual, spect, ipad, play>>

\* No analyzer of the data-level pipeline has been constructed.
NoAnalyzers == << >>

(***************************************************************************)
(* QEEGAnalyzer._compute_asymmetry and the asymmetry section of            *)
(* export_csv.  Powers are whole multiples of 1e-20; ln(right) - ln(left)  *)
(* is held as the pair of its arguments, and is 0.0 when they are equal.   *)
(***************************************************************************)
\* max(power, 1e-20)
NoFloor(power) == power
Floor20(power) == SetMax({power, 1})

\* float(np.log(right_power) - np.log(left_power))
LnDifference(right_power, left_power) == [right |-> right_power, left |-> left_power]

\* The asymmetry list of one band: the loop over ASYMMETRY_PAIRS.
AsymmetryOfBand(a, band_name) ==
    LET prs == PresentPairs(a)
    IN  [n \in 1..Len(prs) |->
           LET left_idx  == IndexOf(a.eeg_channels, prs[n][1])
               right_idx == IndexOf(a.eeg_channels, prs[n][2])
           IN  [pair  |-> prs[n],
                value |-> LnDifference(Floor20(a.band_powers[band_name][right_idx]),
                                       Floor20(a.band_powers[band_name][left_idx]))]]

\* A cell of the exported table: a value formatted with four decimals, or N/A.
Cell4f(value) == [na |-> FALSE, value |-> value]
CellNA == [na |-> TRUE, value |-> LnDifference(0, 0)]

\* The rows of the asymmetry section: one per configured pair, its label and
\* one cell per band, taken from the band's list at the row's index.
AsymmetryRows(a) ==
    [pair_idx \in 1..Len(ASYMMETRY_PAIRS) |->
        [ label |-> ASYMMETRY_PAIRS[pair_idx],
          cells |-> [b \in Bands |->
                        IF pair_idx - 1 < Len(a.asymmetry[b])
                        THEN Cell4f(a.asymmetry[b][pair_idx].value)
                        ELSE CellNA] ]]

\* The channel lists of the analyzers: the subsets of Fp1, Fp2, F7, F8 in the
\* order of the 10-20 list, and in the opposite order.
AsymChannelSets == SUBSET {1, 2, 3, 7}
Ascending(S) ==
    [i \in 1..Cardinality(S) |-> CHOOSE x \in S : Cardinality({y \in S : y < x}) = i - 1]
Descending(S) ==
    [i \in 1..Cardinality(S) |-> CHOOSE x \in S : Cardinality({y \in S : y > x}) = i - 1]
AsymChannelLists == {Ascending(S) : S \in AsymChannelSets} \cup {Descending(S) : S \in AsymChannelSets}

\* The band powers of channel ch in the band with index k, for four recordings:
\* distinct everywhere, equal on all channels, and two with powers at and
\* below zero.
PowerProfiles == {"distinct", "equal", "low", "mixed"}
PowerOf(profile, k, ch) ==
    CASE profile = "distinct" -> 10 * k + ch
      [] profile = "equal"    -> 5 * k
      [] profile = "low"      -> ch - 3
      [] profile = "mixed"    -> (ch - 2) * k

(***************************************************************************)
(* The spectrum of a run: _compute_peak_frequencies of the analyzer and    *)
(* compute_band_power / compute_relative_power of the processor.           *)
(* Frequencies are whole Hz; an integral is held as the samples given to   *)
(* simpson.                                                                *)
(***************************************************************************)
\* FREQ_BANDS[band] and TOTAL_POWER_RANGE
BandRange(band) ==
    CASE band = "Delta" -> <<1, 4>>
      [] band = "Theta" -> <<4, 8>>
      [] band = "Alpha" -> <<8, 13>>
      [] band = "Beta"  -> <<13, 25>>
TOTAL_POWER_RANGE == <<1, 25>>

\* The indices selected by (freqs >= f_low) & (freqs <= f_high).
MaskHalfOpen(freqs, range) ==
    SelectSeq([k \in 1..Len(freqs) |-> k], LAMBDA k : freqs[k] >= range[1] /\ freqs[k] < range[2])
Mask(freqs, range) ==
    SelectSeq([k \in 1..Len(freqs) |-> k], LAMBDA k : freqs[k] >= range[1] /\ freqs[k] <= range[2])

\* np.argmax(row[mask]): the first position of the mask holding the maximum.
ArgMaxLast(row, mask) ==
    CHOOSE j \in 1..Len(mask) :
        /\ \A m \in 1..Len(mask) : row[mask[m]] <= row[mask[j]]
        /\ \A m \in (j + 1)..Len(mask) : row[mask[m]] < row[mask[j]]
ArgMax(row, mask) ==
    CHOOSE j \in 1..Len(mask) :
        /\ \A m \in 1..Len(mask) : row[mask[m]] <= row[mask[j]]
        /\ \A m \in 1..(j - 1) : row[mask[m]] < row[mask[j]]

\* The peak of one row over a range: the frequency at the argmax when the range
\* has a bin with positive PSD, else 0.0.
PeakIn(freqs, row, range) ==
    LET mask == Mask(freqs, range)
    IN  IF Len(mask) > 0 /\ \E m \in 1..Len(mask) : row[mask[m]] > 0
        THEN freqs[mask[ArgMax(row, mask)]]
        ELSE 0

\* QEEGAnalyzer._compute_peak_frequencies: the dict assigned channel by channel.
compute_peak_frequencies(eeg_channels, freqs, psd) ==
    [ch \in Range(eeg_channels) |->
        LET i == SetMax({k \in 1..Len(eeg_channels) : eeg_channels[k] = ch})
        IN  [ alpha_peak |-> PeakIn(freqs, psd[i], BandRange("Alpha")),
              dominant   |-> PeakIn(freqs, psd[i], TOTAL_POWER_RANGE) ]]

\* simpson(y, x = x): not evaluated.  np.zeros is the integral of no samples.
Simpson(y, x) == [y |-> y, x |-> x]
\* On an evenly spaced axis all weights of the rule are positive and a single
\* sample integrates to 0: the integral of a non-negative row is positive when
\* it has two samples or more and one of them is positive.
IsPositive(integral) ==
    /\ Len(integral.y) >= 2
    /\ \E k \in 1..Len(integral.y) : integral.y[k] > 0

\* SignalProcessor.compute_band_power(psd, freqs, band), per channel.
compute_band_power(psd, freqs, band) ==
    LET mask == Mask(freqs, band)
    IN  [c \in 1..Len(psd) |->
            IF Len(mask) = 0 THEN Simpson(<< >>, << >>)
            ELSE Simpson([m \in 1..Len(mask) |-> psd[c][mask[m]]],
                         [m \in 1..Len(mask) |-> freqs[mask[m]]])]

\* SignalProcessor.compute_relative_power(psd, freqs, band): band_power over
\* total_power, the divisor 1e-10 (eps) where the total is not positive.
compute_relative_power(psd, freqs, band) ==
    LET band_power  == compute_band_power(psd, freqs, band)
        total_power == compute_band_power(psd, freqs, TOTAL_POWER_RANGE)
    IN  [c \in 1..Len(psd) |->
            [ num |-> band_power[c],
              den |-> IF IsPositive(total_power[c])
                      THEN [eps |-> FALSE, total |-> total_power[c]]
                      ELSE [eps |-> TRUE, total |-> Simpson(<< >>, << >>)] ]]

\* The frequency axes of the spectra (evenly spaced from 0): steps of 4, 7, 13,
\* 1 and 30 Hz.
FreqAxes ==
    { [k \in 1..8 |-> 4 * (k - 1)], [k \in 1..5 |-> 7 * (k - 1)], [k \in 1..3 |-> 13 * (k - 1)],
      [k \in 1..27 |-> k - 1], [k \in 1..2 |-> 30 * (k - 1)] }

\* The rows of a PSD over an axis.
PsdShapes == {"zero", "flat", "rising", "falling", "outside", "twin"}
PsdRow(shape, freqs) ==
    [k \in 1..Len(freqs) |->
        CASE shape = "zero"    -> 0
          [] shape = "flat"    -> 1
          [] shape = "rising"  -> k
          [] shape = "falling" -> Len(freqs) - k + 1
          [] shape = "outside" -> IF freqs[k] < 8 \/ freqs[k] > 13 THEN 1 ELSE 0
          [] shape = "twin"    -> IF k % 2 = 0 THEN 3 ELSE 1]

MaxSpectChannels == 2

\* The bands compute_relative_power is called with: the configured ones and
\* two of a caller, above the total range and between two bins.
RelativeBands == { BandRange(b) : b \in Bands } \cup { <<30, 45>>, <<5, 6>> }

NewSpectrum ==
    [ pc |-> "idle", eeg_channels |-> << >>, freqs |-> << >>, psd |-> << >>,
      peak_freqs |-> << >>, band |-> << >>, relative |-> << >> ]

\* The PSD stage has stored freqs and psd.
SpectLoad ==
    /\ spect.pc = "idle"
    /\ \E freqs \in FreqAxes, n \in 1..MaxSpectChannels : \E shapes \in [1..n -> PsdShapes] :
          spect' = [spect EXCEPT !.pc = "psd", !.eeg_channels = [i \in 1..n |-> i],
                                 !.freqs = freqs,
                                 !.psd = [i \in 1..n |-> PsdRow(shapes[i], freqs)]]
    /\ UNCHANGED <<earlier, asym, qual, ipad, play>>

\* _compute_peak_frequencies
SpectPeaks ==
    /\ spect.pc = "psd"
    /\ spect' = [spect EXCEPT !.pc = "peaks",
                   !.peak_freqs = compute_peak_frequencies(spect.eeg_channels, spect.freqs, spect.psd)]
    /\ UNCHANGED <<earlier, asym, qual, ipad, play>>

\* processor.compute_relative_power(psd, freqs, band)
SpectRelative ==
    /\ spect.pc \in {"psd", "peaks"}
    /\ \E band \in RelativeBands :
          spect' = [spect EXCEPT !.pc = "relative", !.band = band,
                       !.relative = compute_relative_power(spect.psd, spect.freqs, band)]
    /\ UNCHANGED <<earlier, asym, qual, ipad, play>>

NewAsymmetry ==
    [ pc |-> "idle", eeg_channels |-> << >>, band_powers |-> << >>, asymmetry |-> << >>,
      rows |-> << >> ]

\* A run has computed band powers; _compute_asymmetry.
AsymCompute ==
    /\ asym.pc = "idle"
    /\ \E channels \in AsymChannelLists, profile \in PowerProfiles :
          LET a == [asym EXCEPT
                      !.eeg_channels = channels,
                      !.band_powers = [b \in Bands |->
                          [i \in 1..Len(channels) |->
                              PowerOf(profile, CHOOSE k \in 1..Len(FREQ_BANDS) : FREQ_BANDS[k] = b,
                                      channels[i])]]]
          IN  asym' = [a EXCEPT !.asymmetry = [b \in Bands |-> AsymmetryOfBand(a, b)],
                                !.pc = "computed"]
    /\ UNCHANGED <<earlier, qual, spect, ipad, play>>

\* export_csv: the asymmetry section.
AsymExport ==
    /\ asym.pc = "computed"
    /\ asym' = [asym EXCEPT !.rows = AsymmetryRows(asym), !.pc = "exported"]
    /\ UNCHANGED <<earlier, qual, spect, ipad, play>>

(***************************************************************************)
(* PlaybackWorker.  Times are whole multiples of half a frame, 1 / (2 *    *)
(* TARGET_FPS) seconds, and speeds whole multiples of 0.5, so that a tick  *)
(* advances the time by the speed.                                         *)
(***************************************************************************)
TARGET_FPS == 30
\* DEFAULT_SPEED = 1.0, in halves
DEFAULT_SPEED == 2

\* MIN_SPEED, DEFAULT_SPEED and MAX_SPEED of the speed control
Speeds == {1, DEFAULT_SPEED, 8}
\* The durations of the recordings opened and the times sought, some of them
\* before the start and after the end.
Durations == {0, 5, 12}
SeekTimes == {-1, 0, 3, 7, 20}

\* A signal as the connected slots receive it.
TimeUpdated(t) == [sig |-> "time_updated", time |-> t]
PlaybackFinished == [sig |-> "playback_finished", time |-> 0]

NewPlaybackWorker ==
    [ timer |-> FALSE,            \* the QTimer is active
      interval_ms |-> 0,
      fps |-> TARGET_FPS, speed |-> DEFAULT_SPEED,
      current_time |-> 0, duration |-> 0, is_playing |-> FALSE,
      last |-> "init",            \* the operation called last
      emitted |-> << >> ]         \* the signals it emitted, in order

\* PlaybackWorker.pause on worker w.
Pause(w) == [w EXCEPT !.is_playing = FALSE, !.timer = FALSE]

PlaySetDuration ==
    /\ \E duration \in Durations :
          play' = [play EXCEPT !.duration = duration, !.last = "set_duration", !.emitted = << >>]
    /\ UNCHANGED <<earlier, asym, qual, spect, ipad>>

PlayStart ==
    /\ play' = IF play.duration <= 0
               THEN [play EXCEPT !.last = "start", !.emitted = << >>]
               ELSE [play EXCEPT !.is_playing = TRUE, !.timer = TRUE,
                                 !.interval_ms = 1000 \div play.fps,
                                 !.last = "start", !.emitted = << >>]
    /\ UNCHANGED <<earlier, asym, qual, spect, ipad>>

PlayPause ==
    /\ play' = [Pause(play) EXCEPT !.last = "pause", !.emitted = << >>]
    /\ UNCHANGED <<earlier, asym, qual, spect, ipad>>

PlaySeek ==
    /\ \E time_sec \in SeekTimes :
          LET t == SetMax({0, SetMin({time_sec, play.duration})})
          IN  play' = [play EXCEPT !.current_time = t, !.last = "seek",
                                   !.emitted = << TimeUpdated(t) >>]
    /\ UNCHANGED <<earlier, asym, qual, spect, ipad>>

PlaySetSpeed ==
    /\ \E speed \in Speeds :
          play' = [play EXCEPT !.speed = speed, !.last = "set_speed", !.emitted = << >>]
    /\ UNCHANGED <<earlier, asym, qual, spect, ipad>>

PlayReset ==
    /\ play' = [Pause(play) EXCEPT !.current_time = 0, !.last = "reset",
                                   !.emitted = << TimeUpdated(0) >>]
    /\ UNCHANGED <<earlier, asym, qual, spect, ipad>>

\* The timer's timeout: PlaybackWorker._tick.
PlayTick ==
    /\ play.timer
    /\ LET t == play.current_time + play.speed
       IN  play' = IF t >= play.duration
                   THEN [Pause(play) EXCEPT
                            !.current_time = play.duration, !.last = "tick_end",
                            !.emitted = << TimeUpdated(play.duration), PlaybackFinished >>]
                   ELSE [play EXCEPT !.current_time = t, !.last = "tick",
                                     !.emitted = << TimeUpdated(t) >>]
    /\ UNCHANGED <<earlier, asym, qual, spect, ipad>>

NextPlay ==
    \/ PlaySetDuration
    \/ PlayStart
    \/ PlayPause
    \/ PlaySeek
    \/ PlaySetSpeed
    \/ PlayReset
    \/ PlayTick


(***************************************************************************)
(* The UI thread.  Its handlers run one at a time; the worker threads run  *)
(* concurrently with them.                                                 *)
(***************************************************************************)
InitTab ==
    [ hasLoader |-> FALSE, analyzer |-> 0, method |-> "within",
      reanalyzeEnabled |-> FALSE, zscoreEnabled |-> FALSE, exportEnabled |-> FALSE,
      progressVisible |-> FALSE, progressValue |-> 0, rangeChecked |-> FALSE ]

\* The analyzer's run has passed every stage up to Complete.
Passed(a) == a.returned = NStages

Hand(kind, r) == [kind |-> kind, run |-> r, passed |-> Passed(runs[r])]

(***************************************************************************)
(* QEEGTab._run_analysis, t being the tab as its caller leaves it.         *)
(* Rebinding self._thread drops the only reference to the previous QThread *)
(* object; when that thread is still running, what follows is up to the Qt *)
(* runtime, which may abort the process or leave the thread alone.         *)
(***************************************************************************)
RunAnalysis(t, timeRange) ==
    /\ Len(runs) < MaxRuns
    /\ \/ /\ runs' = Append(runs, NewRun(loader, timeRange, t.method))
          /\ tab' = [t EXCEPT !.progressVisible = TRUE, !.progressValue = 0,
                              !.reanalyzeEnabled = FALSE, !.analyzer = Len(runs) + 1]
          /\ aborted' = FALSE
       \/ /\ t.analyzer > 0
          /\ runs[t.analyzer].thread = "running"
          /\ aborted' = TRUE
          /\ runs' = runs
          /\ tab' = t

\* MainWindow._open_file up to and including self._loader.load(file_path).
OpenFileLoad(rec) ==
    /\ ~aborted
    /\ uiPc = "idle"
    /\ Len(runs) < MaxRuns
    /\ loader' = [rec |-> rec, channels |-> ChannelList(Recordings[rec])]
    /\ uiPc' = "loaded"
    /\ UNCHANGED <<runs, tab, handed, aborted, proc, score, an, asym, qual, spect, ipad, play>>

\* The rest of MainWindow._open_file: QEEGTab.set_data(self._loader).
OpenFileSetData ==
    /\ ~aborted
    /\ uiPc = "loaded"
    /\ RunAnalysis([tab EXCEPT !.hasLoader = TRUE], "full")
    /\ uiPc' = "idle"
    /\ UNCHANGED <<loader, handed, proc, score, an, asym, qual, spect, ipad, play>>

\* QEEGTab._on_range_toggled.
RangeToggled ==
    /\ ~aborted
    /\ uiPc = "idle"
    /\ tab' = [tab EXCEPT !.rangeChecked = ~@,
                          !.reanalyzeEnabled = IF tab.hasLoader THEN TRUE ELSE @]
    /\ UNCHANGED <<loader, runs, uiPc, handed, aborted, proc, score, an, asym, qual, spect, ipad, play>>

\* A click on Re-analyze: QEEGTab._on_reanalyze with _get_time_range; endAfterStart
\* is whether the End spin box holds more than the Start spin box.
Reanalyze ==
    /\ ~aborted
    /\ uiPc = "idle"
    /\ tab.reanalyzeEnabled
    /\ tab.hasLoader
    /\ \E endAfterStart \in BOOLEAN :
          RunAnalysis(tab, IF tab.rangeChecked /\ endAfterStart THEN "custom" ELSE "full")
    /\ UNCHANGED <<loader, uiPc, handed, proc, score, an, asym, qual, spect, ipad, play>>

\* An exception leaving a slot: depending on the PyQt build the process is
\* aborted or the traceback is printed and the event loop goes on.
SlotRaised == aborted' \in BOOLEAN

(***************************************************************************)
(* QEEGTab._on_zscore_method_changed: the user picks the other method in   *)
(* the combo box.  recompute_zscores reads relative_powers of every band.  *)
(***************************************************************************)
ZScoreMethodChanged ==
    /\ ~aborted
    /\ uiPc = "idle"
    /\ tab.zscoreEnabled
    /\ tab.analyzer > 0
    /\ LET m == IF tab.method = "within" THEN "normative" ELSE "within"
           r == tab.analyzer
       IN  /\ tab' = [tab EXCEPT !.method = m]
           /\ IF "relative_powers" \in runs[r].results
              THEN /\ runs' = [runs EXCEPT ![r].method = m, ![r].results = @ \cup {"zscores"}]
                   /\ handed' = {Hand("topomaps", r), Hand("complete", r)}
                   /\ aborted' = FALSE
              ELSE /\ runs' = [runs EXCEPT ![r].method = m]
                   /\ handed' = handed
                   /\ SlotRaised
    /\ UNCHANGED <<loader, uiPc, proc, score, an, asym, qual, spect, ipad, play>>

\* QEEGTab._on_export: ExportDialog(self._analyzer, self._loader, self).
Export ==
    /\ ~aborted
    /\ uiPc = "idle"
    /\ tab.exportEnabled
    /\ handed' = {Hand("export", tab.analyzer)}
    /\ UNCHANGED <<loader, runs, tab, uiPc, aborted, proc, score, an, asym, qual, spect, ipad, play>>

\* The next signal of run r that the UI thread has not handled yet.
Pending(r) == runs[r].sent[runs[r].delivered + 1]

HasPending(r) ==
    /\ r \in 1..Len(runs)
    /\ runs[r].delivered < Len(runs[r].sent)

\* QEEGTab._on_progress.
DeliverProgress(r) ==
    /\ ~aborted
    /\ uiPc = "idle"
    /\ HasPending(r)
    /\ Pending(r).sig = "progress"
    /\ tab' = [tab EXCEPT !.progressValue = Pending(r).pct]
    /\ runs' = [runs EXCEPT ![r].delivered = @ + 1]
    /\ UNCHANGED <<loader, uiPc, handed, aborted, proc, score, an, asym, qual, spect, ipad, play>>

(***************************************************************************)
(* The two slots connected to worker.finished: _on_analysis_complete, then *)
(* the quit of the worker's own thread.  _on_analysis_complete works on    *)
(* self._analyzer: plot_spectra needs freqs and psd, plot_topomaps needs   *)
(* zscores; then analysis_complete is emitted.                             *)
(***************************************************************************)
DeliverFinished(r) ==
    /\ ~aborted
    /\ uiPc = "idle"
    /\ HasPending(r)
    /\ Pending(r).sig = "finished"
    /\ LET cur == tab.analyzer
           res == runs[cur].results
       IN  /\ tab' = [tab EXCEPT !.progressVisible = FALSE, !.zscoreEnabled = TRUE,
                                 !.exportEnabled = TRUE, !.reanalyzeEnabled = TRUE]
           /\ IF "psd" \notin res
              THEN handed' = handed /\ SlotRaised
              ELSE IF "zscores" \notin res
              THEN handed' = {Hand("topomaps", cur)} /\ SlotRaised
              ELSE /\ handed' = {Hand("topomaps", cur), Hand("complete", cur)}
                   /\ aborted' = FALSE
    /\ runs' = [runs EXCEPT ![r].delivered = @ + 1, ![r].thread = "quit"]
    /\ UNCHANGED <<loader, uiPc, proc, score, an, asym, qual, spect, ipad, play>>

\* QEEGTab._on_analysis_error.
DeliverError(r) ==
    /\ ~aborted
    /\ uiPc = "idle"
    /\ HasPending(r)
    /\ Pending(r).sig = "error"
    /\ tab' = [tab EXCEPT !.progressVisible = FALSE]
    /\ runs' = [runs EXCEPT ![r].delivered = @ + 1]
    /\ UNCHANGED <<loader, uiPc, handed, aborted, proc, score, an, asym, qual, spect, ipad, play>>

(***************************************************************************)
(* The application: the main window with no file open.                     *)
(***************************************************************************)
Init ==
    /\ proc = NewProcessor
    /\ score = NewNormativeDB
    /\ an = NoAnalyzers
    /\ asym = NewAsymmetry
    /\ qual = NewQuality
    /\ spect = NewSpectrum
    /\ ipad = NewIpad
    /\ play = NewPlaybackWorker
    /\ loader = [rec |-> 0, channels |-> << >>]
    /\ runs = << >>
    /\ tab = InitTab
    /\ uiPc = "idle"
    /\ handed = {}
    /\ aborted = FALSE

Next ==
    \/ \E rec \in 1..Len(Recordings) : OpenFileLoad(rec)
    \/ OpenFileSetData
    \/ RangeToggled
    \/ Reanalyze
    \/ ZScoreMethodChanged
    \/ Export
    \/ \E r \in 1..MaxRuns : DeliverProgress(r)
    \/ \E r \in 1..MaxRuns : DeliverFinished(r)
    \/ \E r \in 1..MaxRuns : DeliverError(r)
    \/ \E r \in 1..MaxRuns : WorkerStage(r)
    \/ \E r \in 1..MaxRuns : WorkerFinished(r)

Spec == Init /\ [][Next]_vars

(***************************************************************************)
(* One run of the pipeline on its own: a recording with n EEG channels has *)
(* been opened and QEEGTab.set_data has started the analysis of it.        *)
(***************************************************************************)
InitPipeline ==
    /\ proc = NewProcessor
    /\ score = NewNormativeDB
    /\ an = NoAnalyzers
    /\ asym = NewAsymmetry
    /\ qual = NewQuality
    /\ spect = NewSpectrum
    /\ ipad = NewIpad
    /\ play = NewPlaybackWorker
    /\ \E n \in 0..MaxChannels, m \in {"within", "normative"} :
          /\ loader = [rec |-> 1, channels |-> ChannelList(n)]
          /\ runs = << NewRun([rec |-> 1, channels |-> ChannelList(n)], "full", m) >>
          /\ tab = [InitTab EXCEPT !.hasLoader = TRUE, !.analyzer = 1, !.method = m,
                                   !.progressVisible = TRUE]
    /\ uiPc = "idle"
    /\ handed = {}
    /\ aborted = FALSE

NextPipeline == WorkerStage(1) \/ WorkerFinished(1)

SpecPipeline == InitPipeline /\ [][NextPipeline]_vars

(***************************************************************************)
(* reject_artifacts on its own: one call on a fresh SignalProcessor.       *)
(***************************************************************************)
InitReject ==
    /\ proc = NewProcessor
    /\ score = NewNormativeDB
    /\ an = NoAnalyzers
    /\ asym = NewAsymmetry
    /\ qual = NewQuality
    /\ spect = NewSpectrum
    /\ ipad = NewIpad
    /\ play = NewPlaybackWorker
    /\ loader = [rec |-> 0, channels |-> << >>]
    /\ runs = << >>
    /\ tab = InitTab
    /\ uiPc = "idle"
    /\ handed = {}
    /\ aborted = FALSE

NextReject == RejectCall \/ RejectRelaxStep \/ RejectFinishStep

SpecReject == InitReject /\ [][NextReject]_vars

InitScore == InitReject

NextScore == SetMethod \/ ComputeZScores

SpecScore == InitScore /\ [][NextScore]_vars

InitData ==
    /\ proc = NewProcessor
    /\ score = NewNormativeDB
    /\ an = NoAnalyzers
    /\ asym = NewAsymmetry
    /\ qual = NewQuality
    /\ spect = NewSpectrum
    /\ ipad = NewIpad
    /\ play = NewPlaybackWorker
    /\ \E rec \in 1..Len(DataRecordings) :
          loader = [rec |-> rec, channels |-> ChannelList(DataRecordings[rec].n_eeg)]
    /\ runs = << >>
    /\ tab = InitTab
    /\ uiPc = "idle"
    /\ handed = {}
    /\ aborted = FALSE

NextData ==
    \/ Analyze
    \/ \E i \in 1..MaxAnalyzers : DataStage(i)
    \/ \E i \in 1..MaxAnalyzers : RunAgain(i)
    \/ \E i \in 1..MaxAnalyzers : MethodChanged(i)

SpecData == InitData /\ [][NextData]_vars

NextQual == QualDetect \/ QualFilter

SpecQual == InitReject /\ [][NextQual]_vars

NextSpect == SpectLoad \/ SpectPeaks \/ SpectRelative

SpecSpect == InitReject /\ [][NextSpect]_vars

NextIpad == RejectCall \/ RejectRelaxStep \/ RejectFinishStep \/ IpadCall

SpecIpad == InitReject /\ [][NextIpad]_vars

SpecPlay == InitReject /\ [][NextPlay]_vars

NextAsym == AsymCompute \/ AsymExport

SpecAsym == InitReject /\ [][NextAsym]_vars

\* One processor used for any number of calls.
NextRejectSeq == RejectAgain \/ RejectRelaxStep \/ RejectFinishStep

SpecRejectSeq == InitReject /\ [][NextRejectSeq]_vars

(***************************************************************************)
(* Properties of one pipeline run.                                         *)
(***************************************************************************)
RunIds == 1..Len(runs)

\* The percentages passed to the progress callback of a run, in order.
Pcts(a) ==
    LET p == SelectSeq(a.sent, LAMBDA m : m.sig = "progress")
    IN  [i \in 1..Len(p) |-> p[i].pct]

\* The terminal signals a run's worker has emitted, in order.
Terminals(a) ==
    LET t == SelectSeq(a.sent, LAMBDA m : m.sig # "progress")
    IN  [i \in 1..Len(t) |-> t[i].sig]

\* C1: the stages of a run are entered in the fixed order QualityDetection ..
\* Complete, each at most once and only after its predecessor has returned, no
\* earlier stage is re-entered, and a run that returns has entered every stage
\* exactly once.
C1_StagesInFixedOrder ==
    \A r \in RunIds :
        LET a == runs[r] IN
        /\ IsPrefix(a.entered, Stages)
        /\ a.returned = (IF a.raisedAt > 0 THEN Len(a.entered) - 1 ELSE Len(a.entered))
        /\ (a.raisedAt > 0 => a.raisedAt = Len(a.entered))
        /\ (a.pc <= NStages => a.pc = a.returned + 1)
        /\ (a.pc > NStages /\ a.raisedAt = 0 => a.entered = Stages)

C1_Witness ==
    \E r \in RunIds : runs[r].pc = Terminated /\ runs[r].raisedAt = 0 /\ runs[r].entered = Stages

\* C2: the percentages passed to the progress callback within one run never
\* decrease, all lie in 0..100, and 100 is passed only as the last notification,
\* whatever the channel count.
C2_ProgressMonotone ==
    \A r \in RunIds :
        LET p == Pcts(runs[r]) IN
        /\ \A i \in 1..Len(p) : p[i] \in 0..100
        /\ \A i \in 1..Len(p) - 1 : p[i] <= p[i + 1]
        /\ \A i \in 1..Len(p) : p[i] = 100 => i = Len(p)

\* A finished run on a channel count whose last pair is a 20th pair: the pair
\* loop has notified 85 just before the Asymmetry stage did.
C2_Witness ==
    \E r \in RunIds :
        LET p == Pcts(runs[r]) IN
        /\ runs[r].pc = Terminated /\ runs[r].raisedAt = 0
        /\ TotalPairs(Len(runs[r].eeg_channels)) % 20 = 0
        /\ Len(p) > NStages
        /\ p[Len(p)] = 100
        /\ \E i \in 1..Len(p) - 1 : p[i] = 85 /\ p[i + 1] = 85

\* C3: a worker emits no terminal signal before its run ends and exactly one when
\* it ends: finished iff every stage returned, and then right after the 100%
\* notification; otherwise error and never finished, the stage that raised being
\* the last stage entered.
C3_OneTerminalSignal ==
    \A r \in RunIds :
        LET a == runs[r]
            t == Terminals(a)
        IN  /\ a.pc < Terminated => t = << >>
            /\ a.pc = Terminated =>
                  /\ Len(t) = 1
                  /\ a.sent[Len(a.sent)].sig = t[1]
                  /\ (t[1] = "finished") <=> (a.returned = NStages /\ a.raisedAt = 0)
                  /\ t[1] = "finished" => a.sent[Len(a.sent) - 1] = Progress(100)
                  /\ t[1] # "finished" =>
                        /\ t[1] = "error"
                        /\ a.raisedAt \in 1..NStages
                        /\ Len(a.entered) = a.raisedAt
                        /\ a.returned = a.raisedAt - 1

\* A run in which a stage in the middle raised.
C3_Witness ==
    \E r \in RunIds :
        /\ runs[r].pc = Terminated
        /\ runs[r].raisedAt = 4
        /\ Terminals(runs[r]) = << "error" >>

(***************************************************************************)
(* Properties of reject_artifacts, stated on the arguments of the call.    *)
(***************************************************************************)
\* The threshold the caller asked for: the argument, or the default without one.
Requested(p) == IF p.threshold_uv = 0 THEN ARTIFACT_THRESHOLD_UV ELSE p.threshold_uv

\* Samples per epoch and number of whole epochs of the call's data.
EpochLen(p) == (IF p.epoch_sec = 0 THEN EPOCH_DURATION_SEC ELSE p.epoch_sec) * p.sfreq
WholeEpochs(p) == NSamples(p.data) \div EpochLen(p)

\* The whole epochs in which every channel's peak-to-peak amplitude is <= thr:
\* no two samples of the epoch on one channel differ by more than thr.
Surviving(p, thr) ==
    {e \in 1..WholeEpochs(p) :
        \A c \in 1..Len(p.data) :
            \A i, j \in ((e - 1) * EpochLen(p) + 1)..(e * EpochLen(p)) :
                p.data[c][i] - p.data[c][j] <= thr}

\* m is the epochs of S and nothing else, whole and in their original order.
IsEpochsInOrder(p, m, S) ==
    /\ Len(m) = Len(p.data)
    /\ \A c \in 1..Len(m) :
          /\ Len(m[c]) = Cardinality(S) * EpochLen(p)
          /\ \A e \in S :
                LET before == Cardinality({x \in S : x < e})
                IN  \A i \in 1..EpochLen(p) :
                       m[c][before * EpochLen(p) + i] = p.data[c][(e - 1) * EpochLen(p) + i]

Enough(p, thr) == Cardinality(Surviving(p, thr)) >= MIN_CLEAN_EPOCHS

\* C7: when the first pass at the requested threshold keeps at least 30 epochs,
\* the call returns exactly the whole epochs whose every channel has peak-to-peak
\* <= threshold, in their original order, and reports the requested threshold,
\* total_epochs = floor(samples / epoch_samples) and clean_epochs = number kept.
C7_FirstPassKeepsCleanEpochs ==
    (proc.pc = "returned" /\ Enough(proc, Requested(proc))) =>
        /\ IsEpochsInOrder(proc, proc.result, Surviving(proc, Requested(proc)))
        /\ proc.rejection_threshold = Requested(proc)
        /\ proc.n_total_epochs = WholeEpochs(proc)
        /\ proc.n_clean_epochs = Cardinality(Surviving(proc, Requested(proc)))

\* A first pass that keeps 30 epochs and drops one for its second channel alone.
C7_Witness ==
    /\ proc.pc = "returned"
    /\ Enough(proc, Requested(proc))
    /\ proc.n_clean_epochs < proc.n_total_epochs
    /\ \E e \in 1..WholeEpochs(proc) :
          /\ e \notin Surviving(proc, Requested(proc))
          /\ proc.data[1][2 * e] - proc.data[1][2 * e - 1] <= Requested(proc)

C8_Levels == << 150, 200, 300, 500 >>

\* C8: when fewer than 30 epochs survive the first pass and some ladder level
\* keeps at least 30, the thresholds tried are the requested one and then 150,
\* 200, 300, 500 in that order up to the first level that keeps 30; the reported
\* threshold is that level, and the data and count returned are those of the
\* epochs surviving at that level.
C8_LadderStopsAtFirstSufficientLevel ==
    (/\ proc.pc = "returned"
     /\ ~Enough(proc, Requested(proc))
     /\ \E i \in 1..Len(C8_Levels) : Enough(proc, C8_Levels[i])) =>
        LET first == SetMin({i \in 1..Len(C8_Levels) : Enough(proc, C8_Levels[i])})
            level == C8_Levels[first]
        IN  /\ proc.assigned = << Requested(proc) >> \o SubSeq(C8_Levels, 1, first)
            /\ proc.rejection_threshold = level
            /\ proc.n_clean_epochs = Cardinality(Surviving(proc, level))
            /\ IsEpochsInOrder(proc, proc.result, Surviving(proc, level))

\* The ladder stopped at 300, where an epoch is still dropped.
C8_Witness ==
    /\ proc.pc = "returned"
    /\ ~Enough(proc, Requested(proc))
    /\ ~Enough(proc, 200)
    /\ proc.rejection_threshold = 300
    /\ proc.n_clean_epochs < proc.n_total_epochs

\* C9: when fewer than 30 epochs survive the first pass and still fewer than 30
\* survive at the 500 level (and there is a whole epoch), the call returns its
\* input unchanged, reports an infinite threshold and clean_epochs = total_epochs.
C9_FallbackKeepsEverything ==
    (/\ proc.pc = "returned"
     /\ WholeEpochs(proc) >= 1
     /\ ~Enough(proc, Requested(proc))
     /\ ~Enough(proc, 500)) =>
        /\ proc.result = proc.data
        /\ proc.rejection_threshold = Infinity
        /\ proc.n_total_epochs = WholeEpochs(proc)
        /\ proc.n_clean_epochs = proc.n_total_epochs

\* 30 whole epochs, of which one exceeds 500 microvolts: 29 survive at 500.
C9_Witness ==
    /\ proc.pc = "returned"
    /\ WholeEpochs(proc) >= MIN_CLEAN_EPOCHS
    /\ Cardinality(Surviving(proc, 500)) = MIN_CLEAN_EPOCHS - 1
    /\ proc.rejection_threshold = Infinity

\* C10: the values assigned to the reported threshold during one call never
\* decrease, and the reported threshold is never below the requested one.
C10_ThresholdOnlyRelaxes ==
    /\ \A i \in 1..Len(proc.assigned) - 1 : proc.assigned[i] <= proc.assigned[i + 1]
    /\ (proc.assigned # << >> => proc.rejection_threshold >= Requested(proc))

\* C11: after any sequence of reject_artifacts calls on one processor,
\* 0 <= n_clean_epochs <= n_total_epochs, and the stats the analyzer builds have
\* rejected_epochs = total_epochs - clean_epochs >= 0 and 0 <= pct_rejected <= 100,
\* with pct_rejected = 0 when total_epochs = 0.
C11_EpochCountsConsistent ==
    proc.pc = "returned" =>
        LET st == ArtifactStats(proc)
        IN  /\ 0 <= proc.n_clean_epochs
            /\ proc.n_clean_epochs <= proc.n_total_epochs
            /\ st.rejected_epochs = st.total_epochs - st.clean_epochs
            /\ st.rejected_epochs >= 0
            /\ 0 <= st.pct_rejected.num
            /\ st.pct_rejected.den > 0
            /\ st.pct_rejected.num <= 100 * st.pct_rejected.den
            /\ (st.total_epochs = 0 => st.pct_rejected.num = 0)

\* A call on data without a whole epoch has returned on a processor whose
\* earlier call had ended in the no-rejection fallback.
C11_Witness ==
    /\ proc.pc = "returned"
    /\ proc.n_epochs = 0
    /\ proc.rejection_threshold = Infinity
    /\ ArtifactStats(proc).total_epochs = 0

\* C12: whenever total_epochs >= 1, the matrix returned by reject_artifacts has
\* exactly clean_epochs * epoch_samples samples per channel, so the trailing
\* partial epoch is dropped on every path.
C12_TrailingPartialEpochDiscarded ==
    (proc.pc = "returned" /\ proc.n_total_epochs >= 1 /\ proc.n_epochs >= 1) =>
        NSamples(proc.result) = proc.n_clean_epochs * EpochLen(proc)

\* C13: under the approximate-normative strategy, scoring a band that is absent
\* from the published table fails with an error instead of returning an array.
C13_UnknownBandFails ==
    (/\ score.pc = "done"
     /\ score.method = "normative"
     /\ score.band_name \notin {"Delta", "Theta", "Alpha", "Beta"}) =>
        score.out.raised

\* C17: for every vector of n >= 1 channels the within-subject score has the
\* same length and no NaN entry, and is all zeros when the sample standard
\* deviation is zero or undefined (constant vector, single channel).
C17_WithinSubjectNeverUndefined ==
    (score.pc = "done" /\ score.method = "within" /\ Len(score.channel_values) >= 1) =>
        LET v == score.channel_values
            z == score.out.value
        IN  /\ ~score.out.raised
            /\ Len(z) = Len(v)
            /\ \A i \in 1..Len(z) : ~z[i].nan /\ z[i].den # 0
            /\ ((\A i, j \in 1..Len(v) : v[i] = v[j]) => \A i \in 1..Len(z) : z[i] = Zero)

(***************************************************************************)
(* Properties of the pipeline at the level of its data.                    *)
(***************************************************************************)
BandKeyed == {"band_powers", "relative_powers", "zscores", "coherence", "asymmetry"}

\* The fields a change of the Z-score method must leave alone.
UpstreamOfZScores(a) ==
    [ freqs |-> a.freqs, psd |-> a.psd, band_powers |-> a.band_powers,
      relative_powers |-> a.relative_powers, coherence |-> a.coherence,
      asymmetry |-> a.asymmetry, peak_freqs |-> a.peak_freqs,
      artifact_stats |-> a.artifact_stats, channel_quality |-> a.channel_quality,
      clean_data |-> a.clean_data, filtered_data |-> a.filtered_data,
      processor |-> a.processor, executed |-> a.executed, progress |-> a.progress ]

\* C14: a switch of the Z-score method on a completed analyzer replaces the
\* Z-scores only: every other result, the clean data and the processor are
\* unchanged, no stage is executed again and no progress is reported.
C14_MethodSwitchReplacesOnlyZScores ==
    [][\A i \in 1..Len(an) :
          (an[i].status = "complete" /\ an'[i].method # an[i].method) =>
             /\ UpstreamOfZScores(an'[i]) = UpstreamOfZScores(an[i])
             /\ an'[i].status = "complete"
             /\ DOMAIN an'[i].zscores = DOMAIN an[i].zscores
             /\ \A b \in DOMAIN an'[i].zscores :
                   /\ Len(an'[i].zscores[b]) = Len(an[i].zscores[b])
                   /\ \A c \in 1..Len(an'[i].zscores[b]) :
                         an'[i].zscores[b][c].op = an'[i].method]_vars

\* A completed analyzer whose Z-scores are not those of its run any more.
C14_Witness ==
    \E i \in 1..Len(an) :
        /\ an[i].status = "complete"
        /\ an[i].passes = 1
        /\ an[i].method # an[i].first.method
        /\ an[i].zscores # an[i].first.results.zscores

\* C15: for every channel count n >= 1 the Coherence stage completes, and it
\* leaves for every band an n x n symmetric matrix with diagonal 1.0.
C15_CoherenceForEveryChannelCount ==
    \A i \in 1..Len(an) :
        (an[i].n_eeg >= 1 /\ an[i].executed[7] >= 1 /\ an[i].pc # 7) =>
            /\ an[i].status # "error"
            /\ DOMAIN an[i].coherence = Range(FREQ_BANDS)
            /\ \A b \in DOMAIN an[i].coherence :
                  LET m == an[i].coherence[b]
                  IN  /\ Len(m) = an[i].n_eeg
                      /\ \A r \in 1..Len(m) :
                            /\ Len(m[r]) = an[i].n_eeg
                            /\ m[r][r] = One
                            /\ \A c \in 1..Len(m) : m[r][c] = m[c][r]

\* The data fetched for analyzer a holds no whole epoch.
NoEpochs(a) == NSamples(GetEegData(a, a.rec)) < EPOCH_DURATION_SEC * a.processor.sfreq

\* C16: a run on a recording without EEG channels, or with fewer samples than
\* one epoch, never ends in the error state, and with no epoch it reports
\* total_epochs = clean_epochs = 0.
C16_InsufficientDataNeverRaises ==
    \A i \in 1..Len(an) :
        (an[i].n_eeg = 0 \/ NoEpochs(an[i])) =>
            /\ an[i].status # "error"
            /\ (an[i].status = "complete" /\ NoEpochs(an[i]) =>
                   /\ an[i].artifact_stats.total_epochs = 0
                   /\ an[i].artifact_stats.clean_epochs = 0)

\* C18: when a run is complete, band_powers, relative_powers, zscores, coherence
\* and asymmetry have the configured bands as their keys, and every per-channel
\* array in them has one entry per EEG channel.
C18_BandKeysAndChannelLengths ==
    \A i \in 1..Len(an) :
        an[i].status = "complete" =>
            /\ \A f \in BandKeyed : DOMAIN an[i][f] = {"Delta", "Theta", "Alpha", "Beta"}
            /\ \A b \in DOMAIN an[i].band_powers :
                  /\ Len(an[i].band_powers[b]) = Len(an[i].eeg_channels)
                  /\ Len(an[i].relative_powers[b]) = Len(an[i].eeg_channels)
                  /\ Len(an[i].zscores[b]) = Len(an[i].eeg_channels)
                  /\ Len(an[i].coherence[b]) = Len(an[i].eeg_channels)
                  /\ \A r \in 1..Len(an[i].coherence[b]) :
                        Len(an[i].coherence[b][r]) = Len(an[i].eeg_channels)

\* A complete run on a recording that also has a channel that is not EEG.
C18_Witness ==
    \E i \in 1..Len(an) :
        /\ an[i].status = "complete"
        /\ DataRecordings[an[i].rec].n_other > 0
        /\ Len(an[i].eeg_channels) = 3

\* run_full_analysis from its first stage to its end on analyzer a alone.
RECURSIVE RunToEnd(_)
RunToEnd(a) ==
    IF a.status = "running" /\ a.pc \in 1..NStages THEN RunToEnd(DataStageStep(a)) ELSE a

\* Every derived structure of analyzer a is empty and its processor is unused.
NothingDerived(a) ==
    /\ a.freqs = None /\ a.psd = << >> /\ a.clean_data = << >> /\ ~a.has_filtered
    /\ \A f \in BandKeyed \cup {"peak_freqs", "artifact_stats", "channel_quality"} :
          DOMAIN a[f] = {}
    /\ a.processor.n_clean_epochs = 0 /\ a.processor.n_total_epochs = 0
    /\ a.processor.rejection_threshold = ARTIFACT_THRESHOLD_UV
    /\ DOMAIN a.processor.channel_quality = {} /\ a.processor.bad_channels = << >>

\* C19: every run starts from scratch.  A new analysis gets an analyzer with
\* empty derived structures on an unused processor and leaves the analyzers
\* before it as they are; a step of one analyzer's run changes no other
\* analyzer; and the results of a run are those of the same run made alone on
\* the recording, whatever the runs before it computed.
C19_EveryRunStartsFromScratch ==
    /\ [](\A i \in 1..Len(an) :
             (an[i].status = "complete" /\ an[i].passes = 1) =>
                 an[i].first.results =
                     Results(RunToEnd(NewAnalyzer(an[i].rec, an[i].time_range,
                                                  an[i].first.method, NewProcessor))))
    /\ [][/\ Len(an') > Len(an) =>
                /\ NothingDerived(an'[Len(an')])
                /\ \A i \in 1..Len(an) : an'[i] = an[i]
          /\ \A i \in 1..Len(an) :
                an'[i] # an[i] => \A j \in 1..Len(an) \ {i} : an'[j] = an[j]]_vars

\* A run over a sub-range without a whole epoch has completed after a run over
\* the whole recording that ended in the no-rejection fallback.
C19_Witness ==
    /\ Len(an) = 2
    /\ an[1].status = "complete" /\ an[2].status = "complete"
    /\ an[1].time_range = 0 /\ an[2].time_range # 0
    /\ an[1].artifact_stats.threshold_uv = Infinity
    /\ an[2].artifact_stats.threshold_uv = ARTIFACT_THRESHOLD_UV
    /\ an[2].artifact_stats.total_epochs = 0

\* C20: two runs on the same input with the same configuration give the same
\* outputs: two analyzers of one recording, range and method, and a second
\* call of run_full_analysis on an analyzer and its processor.
C20_RunsAreRepeatable ==
    /\ \A i, j \in 1..Len(an) :
          (/\ an[i].passes >= 1 /\ an[j].passes >= 1
           /\ an[i].rec = an[j].rec /\ an[i].time_range = an[j].time_range
           /\ an[i].first.method = an[j].first.method) =>
              an[i].first.results = an[j].first.results
    /\ \A i \in 1..Len(an) :
          (/\ an[i].status = "complete" /\ an[i].passes >= 2
           /\ an[i].method = an[i].first.method) =>
              Results(an[i]) = an[i].first.results

\* A second call has returned on an analyzer whose processor flags a channel.
C20_Witness ==
    \E i \in 1..Len(an) :
        /\ an[i].status = "complete"
        /\ an[i].passes = 2
        /\ an[i].method = an[i].first.method
        /\ an[i].processor.bad_channels # << >>

(***************************************************************************)
(* Properties of the asymmetry lists and of their export.                  *)
(***************************************************************************)
\* The configured pairs, by index, that have both channels in the channel list.
PairsInChannelSet ==
    {k \in 1..8 : /\ ASYMMETRY_PAIRS[k][1] \in Range(asym.eeg_channels)
                  /\ ASYMMETRY_PAIRS[k][2] \in Range(asym.eeg_channels)}

\* The band power of channel ch, floored at 1e-20.
FlooredPower(b, ch) ==
    LET p == asym.band_powers[b][CHOOSE i \in 1..Len(asym.eeg_channels) : asym.eeg_channels[i] = ch]
    IN  IF p < 1 THEN 1 ELSE p

\* C21: for each band the asymmetry list has exactly one entry per configured
\* pair with both channels in the channel set, in the configured order, each
\* labelled with its pair and computed from that pair's band powers floored at
\* 1e-20; nothing stands for a pair with a missing channel; equal powers give 0.
C21_AsymmetryEntriesPerPresentPair ==
    asym.pc # "idle" =>
        \A b \in {"Delta", "Theta", "Alpha", "Beta"} :
            LET list == asym.asymmetry[b]
            IN  /\ Len(list) = Cardinality(PairsInChannelSet)
                /\ \A k \in PairsInChannelSet :
                      LET n == Cardinality({j \in PairsInChannelSet : j <= k})
                          l == ASYMMETRY_PAIRS[k][1]
                          r == ASYMMETRY_PAIRS[k][2]
                      IN  /\ list[n].pair = << l, r >>
                          /\ list[n].value.right = FlooredPower(b, r)
                          /\ list[n].value.left = FlooredPower(b, l)
                          /\ (asym.band_powers[b][IndexOf(asym.eeg_channels, l)]
                                = asym.band_powers[b][IndexOf(asym.eeg_channels, r)]
                              => list[n].value.right = list[n].value.left)

\* F7 and F8 are present without Fp1, with powers below the floor.
C21_Witness ==
    /\ asym.pc = "computed"
    /\ PairsInChannelSet = {2}
    /\ \E i \in 1..Len(asym.eeg_channels) : asym.band_powers["Delta"][i] < 0
    /\ Len(asym.asymmetry["Delta"]) = 1

\* C29: in the export the row labelled with a pair shows for each band the
\* value computed for that pair, and N/A exactly when the pair was omitted.
C29_ExportRowsShowTheirOwnPair ==
    asym.pc = "exported" =>
        \A k \in 1..Len(asym.rows) : \A b \in DOMAIN asym.rows[k].cells :
            LET cell == asym.rows[k].cells[b]
            IN  /\ asym.rows[k].label = ASYMMETRY_PAIRS[k]
                /\ cell.na <=> k \notin PairsInChannelSet
                /\ k \in PairsInChannelSet =>
                      /\ cell.value.right = FlooredPower(b, ASYMMETRY_PAIRS[k][2])
                      /\ cell.value.left = FlooredPower(b, ASYMMETRY_PAIRS[k][1])

(***************************************************************************)
(* Properties of the impedance assessment and of the adaptive filter.      *)
(***************************************************************************)
\* sqrt(sum of squares) of a row: the RMS up to the factor common to all rows.
Norm(row) == CHOOSE k \in 0..20 : k * k = Energy(row, 1, Len(row))

\* The k-th smallest (from 0) of the norms of the rows of data.
SortedNorm(data, k) ==
    Norm(data[CHOOSE c \in 1..Len(data) :
                 /\ Cardinality({d \in 1..Len(data) : Norm(data[d]) < Norm(data[c])}) <= k
                 /\ Cardinality({d \in 1..Len(data) : Norm(data[d]) <= Norm(data[c])}) > k])

\* Row i of data trips one of the three criteria; the 75th percentile is the
\* linear interpolation at position 0.75 (n - 1) of the sorted values, here
\* times 100.
Trips(data, i) ==
    LET n    == Len(data)
        pos  == 75 * (n - 1)
        lo   == pos \div 100
        hi   == IF pos % 100 = 0 THEN lo ELSE lo + 1
        pct  == 100 * SortedNorm(data, lo)
                   + (pos % 100) * (SortedNorm(data, hi) - SortedNorm(data, lo))
        last == data[i][Len(data[i])]
    IN  \/ -100 - 10 * (last % 3) > -110
        \/ -17 - ((last \div 3) % 3) < -18
        \/ 100 * Norm(data[i]) > pct

\* C22: after detect_impedance_issues every listed channel is tagged good or
\* poor, poor exactly when one of the three criteria trips; bad_channels are
\* exactly the indices tagged poor; with an empty matrix every listed channel
\* is good.
C22_ChannelsTaggedByTheThreeCriteria ==
    qual.pc = "detected" =>
        LET names == qual.channel_names
            poor  == {i \in 1..Len(names) : qual.channel_quality[names[i]] = "poor"}
        IN  /\ DOMAIN qual.channel_quality = {names[i] : i \in 1..Len(names)}
            /\ \A i \in 1..Len(names) :
                  /\ qual.channel_quality[names[i]] \in {"good", "poor"}
                  /\ qual.channel_quality[names[i]] = "poor"
                        <=> (Len(qual.data) # 0 /\ Trips(qual.data, i))
            /\ {qual.bad_channels[k] + 1 : k \in 1..Len(qual.bad_channels)} = poor
            /\ Len(qual.bad_channels) = Cardinality(poor)
            /\ Len(qual.data) = 0 => poor = {}

\* Three channels: the loudest is poor by its RMS alone, one by its spectrum,
\* and one sits on both spectral thresholds and is good.
C22_Witness ==
    /\ qual.pc = "detected"
    /\ qual.data = << <<3, 4>>, <<0, 10>>, <<4, 3>> >>
    /\ qual.channel_quality = (1 :> "good" @@ 2 :> "poor" @@ 3 :> "poor")
    /\ qual.bad_channels = <<1, 2>>

\* An empty matrix with two listed channels.
C22_WitnessEmpty ==
    /\ qual.pc = "detected"
    /\ Len(qual.data) = 0
    /\ qual.channel_quality = (1 :> "good" @@ 2 :> "good")

\* The names apply_adaptive_filtering works with.
FilterNames ==
    IF qual.channel_names = << >> THEN [i \in 1..Len(qual.data) |-> 100 + (i - 1)]
    ELSE qual.channel_names

\* C23: apply_adaptive_filtering picks the chain of every channel from the
\* assessment of the data it is filtering: the chain of a poor channel when the
\* row trips a criterion on this matrix, the standard chain otherwise.
C23_FilterChainFromOwnData ==
    qual.pc = "filtered" =>
        /\ Len(qual.filtered) = Len(qual.data)
        /\ \A i \in 1..Len(qual.data) :
              qual.filtered[i] =
                  [t \in 1..Len(qual.data[i]) |->
                      2 * qual.data[i][t] + (IF Trips(qual.data, i) THEN 1 ELSE 0)]

(***************************************************************************)
(* Properties of the peak frequencies and of the relative power.           *)
(***************************************************************************)
\* f is the peak of row over [lo, hi]: the lowest frequency of the axis inside
\* the range at which the row is largest, or 0 when no bin inside is positive.
IsPeak(f, row, lo, hi) ==
    LET inside == {k \in 1..Len(spect.freqs) : spect.freqs[k] >= lo /\ spect.freqs[k] <= hi}
        tops   == {k \in inside : \A m \in inside : row[m] <= row[k]}
    IN  IF \E k \in inside : row[k] > 0
        THEN \E k \in tops : /\ f = spect.freqs[k]
                             /\ \A m \in tops : spect.freqs[k] <= spect.freqs[m]
        ELSE f = 0

\* C24: every EEG channel has exactly one entry of peak frequencies; alpha_peak
\* is the lowest frequency in [8, 13] where the channel's PSD is largest, or 0.0
\* exactly when no bin of the range is positive; dominant likewise over [1, 25].
C24_PeaksAtTheMaximumOfTheRange ==
    spect.pc = "peaks" =>
        /\ DOMAIN spect.peak_freqs = 1..Len(spect.eeg_channels)
        /\ \A i \in 1..Len(spect.eeg_channels) :
              /\ IsPeak(spect.peak_freqs[i].alpha_peak, spect.psd[i], 8, 13)
              /\ IsPeak(spect.peak_freqs[i].dominant, spect.psd[i], 1, 25)
              /\ spect.peak_freqs[i].alpha_peak = 0
                    <=> ~ \E k \in 1..Len(spect.freqs) :
                            spect.freqs[k] >= 8 /\ spect.freqs[k] <= 13 /\ spect.psd[i][k] > 0

\* A flat channel (its peaks are the lowest bins of the ranges) next to one
\* that has nothing inside the alpha range.
C24_Witness ==
    /\ spect.pc = "peaks"
    /\ Len(spect.freqs) = 8
    /\ Len(spect.eeg_channels) = 2
    /\ spect.peak_freqs[1] = [alpha_peak |-> 8, dominant |-> 4]
    /\ spect.peak_freqs[2] = [alpha_peak |-> 0, dominant |-> 4]

\* The samples of row at the bins inside [lo, hi], in the order of the axis.
Inside(row, lo, hi) ==
    LET ks == {k \in 1..Len(spect.freqs) : spect.freqs[k] >= lo /\ spect.freqs[k] <= hi}
    IN  [n \in 1..Cardinality(ks) |->
            row[CHOOSE k \in ks : Cardinality({m \in ks : m < k}) = n - 1]]

\* C25: the relative power of every channel is the integral over the bins of
\* the band, bounds included, over the integral over the bins in [1, 25], the
\* divisor being 1e-10 when that total is not positive; it is never negative;
\* a band without bins has power 0.
C25_RelativePowerDefined ==
    spect.pc = "relative" =>
        /\ Len(spect.relative) = Len(spect.psd)
        /\ \A c \in 1..Len(spect.psd) :
              LET r     == spect.relative[c]
                  inB   == Inside(spect.psd[c], spect.band[1], spect.band[2])
                  inT   == Inside(spect.psd[c], 1, 25)
                  totalPositive == Len(inT) >= 2 /\ \E k \in 1..Len(inT) : inT[k] > 0
              IN  /\ r.num.y = inB
                  /\ r.den.eps <=> ~ totalPositive
                  /\ ~ r.den.eps => r.den.total.y = inT
                  /\ \A k \in 1..Len(r.num.y) : r.num.y[k] >= 0
                  /\ Len(inB) = 0 => ~ IsPositive(r.num)

\* Beta on the 1 Hz axis: both bounds, 13 and 25, are bins and are integrated.
C25_Witness ==
    /\ spect.pc = "relative"
    /\ spect.band = <<13, 25>>
    /\ Len(spect.freqs) = 27
    /\ Len(spect.relative[1].num.y) = 13
    /\ Len(spect.relative[1].den.total.y) = 25
    /\ ~ spect.relative[1].den.eps

\* A total of a single bin: the divisor is 1e-10.
C25_WitnessEpsilon ==
    /\ spect.pc = "relative"
    /\ Len(spect.freqs) = 3
    /\ spect.psd[1] = <<1, 1, 1>>
    /\ spect.relative[1].den.eps

(***************************************************************************)
(* Properties of the iPad copy of reject_artifacts and of short recordings.*)
(***************************************************************************)
\* C26: called with the arguments of a call on a fresh processor, the iPad
\* function returns the processor's clean data, and its stats are the
\* processor's n_total_epochs, n_clean_epochs, their difference and
\* rejection_threshold.
C26_IpadEqualsDesktop ==
    ipad.pc = "returned" =>
        /\ ipad.clean_data = proc.result
        /\ ipad.stats.total = proc.n_total_epochs
        /\ ipad.stats.clean = proc.n_clean_epochs
        /\ ipad.stats.rejected = proc.n_total_epochs - proc.n_clean_epochs
        /\ ipad.stats.threshold = proc.rejection_threshold

\* The two agree on every recording with a whole epoch.
IpadEqualsDesktopWithEpochs ==
    (ipad.pc = "returned" /\ proc.n_epochs >= 1) =>
        /\ ipad.clean_data = proc.result
        /\ ipad.stats = [total |-> proc.n_total_epochs, clean |-> proc.n_clean_epochs,
                         rejected |-> proc.n_total_epochs - proc.n_clean_epochs,
                         threshold |-> proc.rejection_threshold]

\* C27: on a recording of at least 1 and fewer than 30 whole epochs nothing is
\* rejected, whatever the amplitudes and the requested threshold: the result is
\* the whole input, the threshold infinity and the clean count the total, for
\* the processor and for the iPad function.
C27_ShortRecordingsNeverRejected ==
    /\ (proc.pc = "returned" /\ proc.n_epochs >= 1 /\ proc.n_epochs < 30) =>
          /\ proc.result = proc.data
          /\ proc.rejection_threshold = 1000000000
          /\ proc.n_clean_epochs = proc.n_total_epochs
          /\ proc.n_total_epochs = proc.n_epochs
    /\ (ipad.pc = "returned" /\ proc.n_epochs >= 1 /\ proc.n_epochs < 30) =>
          /\ ipad.clean_data = proc.data
          /\ ipad.stats.threshold = 1000000000
          /\ ipad.stats.clean = ipad.stats.total
          /\ ipad.stats.total = proc.n_epochs
          /\ ipad.stats.rejected = 0

\* 29 whole epochs, every one within the requested 600 uV: still the fallback.
C27_Witness ==
    /\ ipad.pc = "returned"
    /\ proc.n_epochs = 29
    /\ proc.threshold_uv = 600
    /\ Len(proc.clean_epochs) = 29
    /\ ipad.stats.threshold = 1000000000

(***************************************************************************)
(* Properties of the tab.                                                  *)
(***************************************************************************)
\* The runs that have been started and have not yet emitted finished or error.
ActiveRuns == {r \in RunIds : runs[r].pc < Terminated}

\* C4: every analyzer handed to a consumer (analysis_complete emitted, topomaps
\* re-plotted, export dialog opened) belongs to a run that has passed every
\* stage up to Complete.
C4_NoPartialResultsHanded == \A h \in handed : h.passed

\* C5: at most one analysis run is active at any time.
C5_AtMostOneActiveRun == Cardinality(ActiveRuns) <= 1

\* C6: all fetches of one run observe the same recording, with a channel list
\* equal to the eeg_channels the analyzer captured at construction.
C6_RunReadsOneRecording ==
    \A r \in RunIds :
        \A i \in 1..Len(runs[r].fetched) :
            /\ runs[r].fetched[i].rec = runs[r].fetched[1].rec
            /\ runs[r].fetched[i].channels = runs[r].eeg_channels

\* The step handles the terminal signal (finished or error) of run r.
HandlesTerminal(r) ==
    /\ r \in 1..Len(runs)
    /\ runs'[r].delivered = runs[r].delivered + 1
    /\ runs[r].sent[runs'[r].delivered].sig # "progress"

\* C28: the handling of a run's terminal signal, finished or error, leaves the
\* UI ready for another run: the run's thread has been asked to quit, the
\* progress bar is hidden and Re-analyze is enabled.
C28_TerminalSignalLeavesUiReady ==
    [][\A r \in 1..MaxRuns :
          HandlesTerminal(r) =>
              /\ runs'[r].thread = "quit"
              /\ ~tab'.progressVisible
              /\ tab'.reanalyzeEnabled]_vars

\* The half of it that holds: finished runs, and the progress bar of all.
FinishedLeavesUiReady ==
    [][\A r \in 1..MaxRuns :
          HandlesTerminal(r) =>
              /\ ~tab'.progressVisible
              /\ runs[r].sent[runs'[r].delivered].sig = "finished" =>
                    runs'[r].thread = "quit" /\ tab'.reanalyzeEnabled]_vars

\* The thread of a run whose error has been handled is never asked to quit.
ErrorThreadKeepsRunning ==
    \A r \in 1..Len(runs) :
        (runs[r].delivered > 0 /\ runs[r].sent[runs[r].delivered].sig = "error")
            => runs[r].thread = "running"

(***************************************************************************)
(* Properties of the playback worker.                                      *)
(***************************************************************************)
\* A tick that reached the end: the time is the duration, playback is stopped,
\* and playback_finished was emitted once, after the final time_updated.
TickAtEnd ==
    play.last = "tick_end" =>
        /\ play.current_time = play.duration
        /\ ~play.is_playing
        /\ ~play.timer
        /\ play.emitted = << [sig |-> "time_updated", time |-> play.duration],
                             [sig |-> "playback_finished", time |-> 0] >>

\* is_playing only while the timer runs.
PlayingOnlyWithTimer == play.is_playing => play.timer

\* C30: after any sequence of operations 0 <= current_time <= duration;
\* is_playing only if the timer is running and duration > 0; a tick that
\* reaches the end leaves current_time = duration and playback stopped, with
\* playback_finished emitted once after the final time_updated.
C30_PlaybackInvariants ==
    /\ 0 <= play.current_time
    /\ play.current_time <= play.duration
    /\ play.is_playing => (play.timer /\ play.duration > 0)
    /\ TickAtEnd

====
